---- MODULE Spec2Model ----
(***************************************************************************)
(* Credential lifecycle of the UPS carrier integration: the token cache,   *)
(* the buffer-adjusted validity rule and the single-flight acquisition of  *)
(* UPSAuthProvider (src/carriers/ups/ups-auth.ts); and the retrying,       *)
(* error-classifying transport HttpClient (utils/http-client.ts); and the  *)
(* rate request of UPSCarrier (carriers/ups/ups-carrier.ts), which uses    *)
(* both.                                                                   *)
(*                                                                         *)
(* Execution is single-threaded and cooperative: every action below is one *)
(* run-to-completion segment of the JavaScript (a call up to its first     *)
(* await, or the continuation after an await).                              *)
(***************************************************************************)
EXTENDS Integers, FiniteSets, Sequences, TLC

\* ------------------------------------------------------------------ bounds
NumCallers == 2
MaxPosts == 2
MaxTicks == 2
MaxConfiguredRetries == 3
MaxRateCalls == 2

\* ------------------------------------------------------- program constants
REFRESH_BUFFER_SECONDS == 300
DEFAULT_MAX_RETRIES == 3
DEFAULT_RETRY_DELAY == 1000
BACKOFF_FACTOR == 2
CARRIER_MAX_RETRIES == 3

\* -------------------------------------------------------------- input sets
Callers == 1..NumCallers
ExchangeIds == 1..MaxPosts

\* The wall clock advances alternately by 299 s and by 1 s, so that both
\* sides of the 300 s refresh buffer are visited.
ClockStep(k) == IF k % 2 = 0 THEN 299 ELSE 1

\* access_token and expires_in values the token endpoint answers with.
AccessTokens == {"tokA", "tokB"}
Lifetimes == {0, 300, 600}

\* Success bodies (UPSTokenResponse); a body may lack access_token.
GoodBodies ==
    {[access_token |-> a, token_type |-> "Bearer", expires_in |-> l] :
        a \in AccessTokens, l \in Lifetimes}
BadBodies ==
    {[token_type |-> "Bearer", expires_in |-> 600]}
TokenResponses ==
    {[ok |-> TRUE, data |-> d] : d \in GoodBodies \cup BadBodies}

\* Failures of httpClient.post.  shape "axios": axios.isAxiosError(error)
\* holds; shape "mock": an object with a `response` property that is not an
\* AxiosError; shape "error": any other thrown value.  An error without a
\* status field carries no response.
PostErrors ==
    {[ok |-> FALSE, shape |-> "axios", status |-> 401, data |-> [error |-> "invalid_client"]]}

\* Every kind of failure the catch block of acquireToken() tells apart.
PostFailures ==
    {[ok |-> FALSE, shape |-> sh, status |-> st, data |-> [error |-> "invalid_client"]] :
        sh \in {"axios", "mock"}, st \in {401, 403, 429, 500}}
    \cup {[ok |-> FALSE, shape |-> sh] : sh \in {"axios", "error"}}

PostOutcomes == TokenResponses \cup PostErrors

\* ------------------------------------------------------------------ values
Null == [absent |-> TRUE]

\* Settlement of a promise, as seen by one holder of a reference to it.
NoCall == [state |-> "none"]
Pending == [state |-> "pending"]
Fulfilled(v) == [state |-> "fulfilled", value |-> v]
Rejected(e) == [state |-> "rejected", reason |-> e]

IsSettled(p) == p.state \in {"fulfilled", "rejected"}

\* A reference to the promise acquireToken() returned for exchange id.
PromiseRef(id, st) == [id |-> id, st |-> st]

VARIABLES
    now,          \* Math.floor(Date.now() / 1000)
    ticks,        \* number of clock advances so far
    cachedToken,  \* UPSAuthProvider.cachedToken (Null or an AuthToken)
    tokenPromise, \* UPSAuthProvider.tokenPromise (Null or a promise)
    posts,        \* number of httpClient.post calls made so far
    inflight,     \* ids of the posts that have not been answered
    pc,           \* caller -> "idle" | "initiator" | "joiner" | "done"
    via,          \* caller -> the getToken() path its latest call took
    handle,       \* caller -> id of the promise its latest call awaits (0: none)
    result,       \* caller -> settlement of the promise of its latest call
    callEpoch,    \* caller -> number of exchanges settled when it called
                  \*   (0 for a call served from the cache)
    acquiredAt,   \* time at which cachedToken was constructed (0: none)
    op,           \* caller -> the method of its call in progress
    axiosLib,     \* "real": the axios library; "mocked": the test double
    httpConfig,   \* the HttpClientConfig given to the constructor
    maxRetries,   \* HttpClient.maxRetries
    retryDelay,   \* HttpClient.retryDelay
    method,       \* the HttpClient method of the logical request
    hpc,          \* "idle" | "attempt" | "backoff" | "done"
    retryCount,   \* the retryCount argument of the running requestWithRetry
    answers,      \* what each attempt so far was answered with
    delays,       \* the delays waited so far
    outcome,      \* settlement of the promise the HttpClient method returned
    rpc,          \* getRates(): "off" | "idle" | "token" | "rating" |
                  \*   "refreshing" | "rerating" | "done"
    rateCalls,    \* number of getRates() calls made so far
    rateRequest,  \* the RateRequest of the latest getRates() call
    sent,         \* the business requests the latest call has posted
    rateAnswers,  \* what each of those posts was answered with
    caughtError,  \* the error caught at the outer catch of getRates()
    refreshes,    \* refreshToken() calls made by the latest getRates() call
    rateOutcome   \* settlement of the promise getRates() returned

authVars == <<now, ticks, cachedToken, tokenPromise, posts, inflight,
              pc, via, handle, result, callEpoch, acquiredAt, op>>

httpVars == <<axiosLib, httpConfig, maxRetries, retryDelay, method, hpc,
              retryCount, answers, delays, outcome>>

carrierVars == <<rpc, rateCalls, rateRequest, sent, rateAnswers, caughtError,
                 refreshes, rateOutcome>>

vars == <<authVars, httpVars, carrierVars>>

callerVars == <<pc, via, handle, result, callEpoch, op>>

SettledCount == posts - Cardinality(inflight)

\* ------------------------------------------------------- UPSAuthProvider
\* Variant of hasValidToken() that compares with the raw expiry.
hasValidTokenNoBuffer(tok, t) ==
    IF tok = Null THEN FALSE ELSE t < tok.expiresAt

\* Variant of hasValidToken() whose comparison includes the boundary.
hasValidTokenInclusive(tok, t) ==
    IF tok = Null
    THEN FALSE
    ELSE t <= tok.expiresAt - REFRESH_BUFFER_SECONDS

\* Variant of hasValidToken() with the absent-credential test inverted.
hasValidTokenInverted(tok, t) ==
    IF tok # Null
    THEN FALSE
    ELSE TRUE

\* hasValidToken(): ups-auth.ts 57-67
hasValidToken(tok, t) ==
    IF tok = Null
    THEN FALSE
    ELSE LET expiryWithBuffer == tok.expiresAt - REFRESH_BUFFER_SECONDS
         IN  t < expiryWithBuffer

Max(a, b) == IF a >= b THEN a ELSE b

\* Variant of getTimeUntilExpiry() that measures up to the buffered expiry.
getTimeUntilExpiryBuffered(tok, t) ==
    IF tok = Null
    THEN 0
    ELSE Max(0, tok.expiresAt - REFRESH_BUFFER_SECONDS - t)

\* getTimeUntilExpiry(): ups-auth.ts 185-194
getTimeUntilExpiry(tok, t) ==
    IF tok = Null
    THEN 0
    ELSE LET remaining == tok.expiresAt - t
         IN  Max(0, remaining)

\* new CarrierAuthError(message, 'UPS', originalError): error.ts 25-33.
\* id stands for the identity of the error object.
CarrierAuthError(id, message, originalError) ==
    [id |-> id, name |-> "CarrierAuthError", code |-> "AUTH_ERROR",
     carrier |-> "UPS", message |-> message, originalError |-> originalError]

\* Variant of the catch block that reports a 429 as a rate-limit error.
AuthErrorForRateLimited(id, err) ==
    IF "status" \in DOMAIN err /\ err.status = 429
    THEN [id |-> id, name |-> "CarrierRateLimitError", code |-> "RATE_LIMIT_ERROR",
          carrier |-> "UPS", message |-> "Authentication rate limited by UPS",
          originalError |-> err.data]
    ELSE CarrierAuthError(id, "Failed to acquire token", err)

\* The catch block of acquireToken(): ups-auth.ts 111-181
AuthErrorFor(id, err) ==
    LET isAxios == "shape" \in DOMAIN err /\ err.shape = "axios"
        hasResponse == "status" \in DOMAIN err
    IN
    IF isAxios
    THEN IF hasResponse /\ err.status \in {401, 403}
         THEN CarrierAuthError(id, "Authentication failed: Invalid credentials", err.data)
         ELSE IF hasResponse /\ err.status = 429
         THEN CarrierAuthError(id, "Authentication rate limited by UPS", err.data)
         ELSE CarrierAuthError(id, "Failed to acquire token", err)
    ELSE IF hasResponse /\ err.status \in {401, 403}
    THEN CarrierAuthError(id, "Authentication failed: Invalid credentials", err.data)
    ELSE IF hasResponse /\ err.status = 429
    THEN CarrierAuthError(id, "Authentication rate limited by UPS", err.data)
    ELSE CarrierAuthError(id, "Unexpected error during token acquisition", err)

\* !response.data.access_token: ups-auth.ts 93
MissingAccessToken(data) ==
    \/ "access_token" \notin DOMAIN data
    \/ data.access_token = ""

\* Variant of the end of acquireToken() that does not validate the body.
AcquireOutcomeUnvalidated(id, out, t) ==
    IF out.ok
    THEN LET tok == [accessToken |-> IF "access_token" \in DOMAIN out.data
                                     THEN out.data.access_token
                                     ELSE "undefined",
                     tokenType |-> out.data.token_type,
                     expiresIn |-> out.data.expires_in,
                     expiresAt |-> t + out.data.expires_in]
         IN  [cached |-> tok, settled |-> Fulfilled(tok.accessToken)]
    ELSE [cached |-> Null, settled |-> Rejected(AuthErrorFor(id, out))]

\* Variant of the end of acquireToken() whose catch block leaves the cached
\* credential as it is.
AcquireOutcomeKeepsCredential(id, out, t) ==
    IF out.ok /\ ~MissingAccessToken(out.data)
    THEN LET tok == [accessToken |-> out.data.access_token,
                     tokenType |-> out.data.token_type,
                     expiresIn |-> out.data.expires_in,
                     expiresAt |-> t + out.data.expires_in]
         IN  [cached |-> tok, settled |-> Fulfilled(tok.accessToken)]
    ELSE IF out.ok
    THEN [cached |-> cachedToken,
          settled |-> Rejected(AuthErrorFor(id, CarrierAuthError(id,
                        "Invalid token response: missing access_token", out.data)))]
    ELSE [cached |-> cachedToken, settled |-> Rejected(AuthErrorFor(id, out))]

\* Variant of the end of acquireToken() that leaves the issued lifetime out
\* of expiresAt.
AcquireOutcomeExpiresNow(id, out, t) ==
    IF out.ok /\ ~MissingAccessToken(out.data)
    THEN LET tok == [accessToken |-> out.data.access_token,
                     tokenType |-> out.data.token_type,
                     expiresIn |-> out.data.expires_in,
                     expiresAt |-> t]
         IN  [cached |-> tok, settled |-> Fulfilled(tok.accessToken)]
    ELSE IF out.ok
    THEN [cached |-> Null,
          settled |-> Rejected(AuthErrorFor(id, CarrierAuthError(id,
                        "Invalid token response: missing access_token", out.data)))]
    ELSE [cached |-> Null, settled |-> Rejected(AuthErrorFor(id, out))]

\* Variant of the end of acquireToken() that, when a credential is cached,
\* keeps it and moves its expiry instead of constructing a new one.
AcquireOutcomeUpdatesInPlace(id, out, t) ==
    IF out.ok /\ ~MissingAccessToken(out.data)
    THEN LET tok == IF cachedToken # Null
                    THEN [cachedToken EXCEPT !.expiresAt = t + out.data.expires_in]
                    ELSE [accessToken |-> out.data.access_token,
                          tokenType |-> out.data.token_type,
                          expiresIn |-> out.data.expires_in,
                          expiresAt |-> t + out.data.expires_in]
         IN  [cached |-> tok, settled |-> Fulfilled(tok.accessToken)]
    ELSE IF out.ok
    THEN [cached |-> Null,
          settled |-> Rejected(AuthErrorFor(id, CarrierAuthError(id,
                        "Invalid token response: missing access_token", out.data)))]
    ELSE [cached |-> Null, settled |-> Rejected(AuthErrorFor(id, out))]

\* The part of acquireToken() after the post has been answered
\* (ups-auth.ts 92-181): the credential it leaves and the settlement of
\* the promise it returned.  The error thrown for a body without
\* access_token is thrown inside the try, so the catch block wraps it.
AcquireOutcome(id, out, t) ==
    IF out.ok /\ ~MissingAccessToken(out.data)
    THEN LET tok == [accessToken |-> out.data.access_token,
                     tokenType |-> out.data.token_type,
                     expiresIn |-> out.data.expires_in,
                     expiresAt |-> t + out.data.expires_in]
         IN  [cached |-> tok, settled |-> Fulfilled(tok.accessToken)]
    ELSE IF out.ok
    THEN [cached |-> Null,
          settled |-> Rejected(AuthErrorFor(id, CarrierAuthError(id,
                        "Invalid token response: missing access_token", out.data)))]
    ELSE [cached |-> Null, settled |-> Rejected(AuthErrorFor(id, out))]

\* Variant of getToken() that never waits for a pending acquisition.
GetTokenPathNoJoin(tok, t, slot) ==
    IF hasValidToken(tok, t) THEN "cache"
    ELSE IF tok # Null THEN "renew"
    ELSE "init"

\* Variant of getToken() that never serves the cached token.
GetTokenPathNoCache(tok, t, slot) ==
    IF slot # Null THEN "join"
    ELSE IF tok # Null THEN "renew"
    ELSE "init"

\* The ways through getToken() up to its first await (ups-auth.ts 30-45):
\* the cached token, the pending promise, or a new acquisition ("renew"
\* when it starts while a credential that is no longer valid is cached).
GetTokenPath(tok, t, slot) ==
    IF hasValidToken(tok, t) THEN "cache"
    ELSE IF slot # Null THEN "join"
    ELSE IF tok # Null THEN "renew"
    ELSE "init"

\* Callers are interchangeable: a new call is made by the least-numbered
\* caller that is not waiting for an earlier call of its own.
CanCall(c) ==
    /\ pc[c] \in {"idle", "done"}
    /\ \A d \in Callers : d < c => pc[d] \in {"initiator", "joiner"}

\* The body of getToken() up to its first await, run by caller c on the
\* credential tok (ups-auth.ts 30-45); acquireToken() runs synchronously
\* up to its post (ups-auth.ts 74-90).
GetTokenBody(c, tok) ==
    LET path == GetTokenPath(tok, now, tokenPromise) IN
    /\ CanCall(c)
    /\ via' = [via EXCEPT ![c] = path]
    /\ callEpoch' = [callEpoch EXCEPT ![c] =
                        IF path = "cache" THEN 0 ELSE SettledCount]
    /\ cachedToken' = tok
    /\ acquiredAt' = IF tok = Null THEN 0 ELSE acquiredAt
    /\ IF path = "cache"
       THEN /\ pc' = [pc EXCEPT ![c] = "done"]
            /\ result' = [result EXCEPT ![c] = Fulfilled(tok.accessToken)]
            /\ handle' = [handle EXCEPT ![c] = 0]
            /\ UNCHANGED <<tokenPromise, posts, inflight>>
       ELSE IF path = "join"
       THEN /\ pc' = [pc EXCEPT ![c] = "joiner"]
            /\ result' = [result EXCEPT ![c] = tokenPromise.st]
            /\ handle' = [handle EXCEPT ![c] = tokenPromise.id]
            /\ UNCHANGED <<tokenPromise, posts, inflight>>
       ELSE /\ path \in {"init", "renew"}
            /\ posts < MaxPosts
            /\ posts' = posts + 1
            /\ inflight' = inflight \cup {posts + 1}
            /\ tokenPromise' = PromiseRef(posts + 1, Pending)
            /\ pc' = [pc EXCEPT ![c] = "initiator"]
            /\ result' = [result EXCEPT ![c] = Pending]
            /\ handle' = [handle EXCEPT ![c] = posts + 1]
    /\ UNCHANGED <<now, ticks>>
    /\ UNCHANGED httpVars

\* getToken(): ups-auth.ts 30-45
GetToken(c) ==
    /\ GetTokenBody(c, cachedToken)
    /\ op' = [op EXCEPT ![c] = IF pc'[c] = "done" THEN "none" ELSE "getToken"]
    /\ UNCHANGED carrierVars

\* Variant of refreshToken() that does not discard the cached credential.
RefreshTokenKeepsCredential(c) ==
    /\ GetTokenBody(c, cachedToken)
    /\ op' = [op EXCEPT ![c] = IF pc'[c] = "done" THEN "none" ELSE "refreshToken"]
    /\ UNCHANGED carrierVars

\* Variant of refreshToken() that posts even when an acquisition is pending.
RefreshTokenAlwaysPosts(c) ==
    /\ CanCall(c)
    /\ posts < MaxPosts
    /\ cachedToken' = Null
    /\ acquiredAt' = 0
    /\ posts' = posts + 1
    /\ inflight' = inflight \cup {posts + 1}
    /\ tokenPromise' = PromiseRef(posts + 1, Pending)
    /\ pc' = [pc EXCEPT ![c] = "initiator"]
    /\ via' = [via EXCEPT ![c] = "init"]
    /\ callEpoch' = [callEpoch EXCEPT ![c] = SettledCount]
    /\ result' = [result EXCEPT ![c] = Pending]
    /\ handle' = [handle EXCEPT ![c] = posts + 1]
    /\ op' = [op EXCEPT ![c] = "refreshToken"]
    /\ UNCHANGED <<now, ticks>>
    /\ UNCHANGED <<httpVars, carrierVars>>

\* refreshToken(): ups-auth.ts 52-55
RefreshToken(c) ==
    /\ GetTokenBody(c, Null)
    /\ op' = [op EXCEPT ![c] = "refreshToken"]
    /\ UNCHANGED carrierVars

\* Variant of clearToken() that also drops the pending acquisition.
ClearTokenAndPending ==
    /\ cachedToken # Null \/ tokenPromise # Null
    /\ cachedToken' = Null
    /\ acquiredAt' = 0
    /\ tokenPromise' = Null
    /\ UNCHANGED <<now, ticks, posts, inflight>>
    /\ UNCHANGED callerVars
    /\ UNCHANGED <<httpVars, carrierVars>>

\* Variant of clearToken() that marks the credential expired and keeps it.
ClearTokenExpires ==
    /\ cachedToken # Null
    /\ cachedToken' = [cachedToken EXCEPT !.expiresAt = now]
    /\ UNCHANGED <<now, ticks, tokenPromise, posts, inflight, acquiredAt>>
    /\ UNCHANGED callerVars
    /\ UNCHANGED <<httpVars, carrierVars>>

\* clearToken(): ups-auth.ts 69-71
ClearToken ==
    /\ cachedToken # Null
    /\ cachedToken' = Null
    /\ acquiredAt' = 0
    /\ UNCHANGED <<now, ticks, tokenPromise, posts, inflight>>
    /\ UNCHANGED callerVars
    /\ UNCHANGED <<httpVars, carrierVars>>

\* The post of exchange e is answered with out and acquireToken() runs to
\* its end (ups-auth.ts 92-181), which settles the promise it returned:
\* every holder of that promise now sees the settlement.
AcquireTokenSettle(e, out) ==
    LET r == AcquireOutcome(e, out, now) IN
    /\ e \in inflight
    /\ inflight' = inflight \ {e}
    /\ cachedToken' = r.cached
    /\ acquiredAt' = IF r.cached = Null THEN 0 ELSE now
    /\ tokenPromise' = IF tokenPromise # Null /\ tokenPromise.id = e
                       THEN PromiseRef(e, r.settled)
                       ELSE tokenPromise
    /\ result' = [c \in Callers |->
                    IF pc[c] \in {"initiator", "joiner"} /\ handle[c] = e
                    THEN r.settled
                    ELSE result[c]]
    /\ UNCHANGED <<now, ticks, posts, pc, via, handle, callEpoch, op>>
    /\ UNCHANGED <<httpVars, carrierVars>>

\* Variant of the initiator's continuation without the finally.
InitiatorResumeKeepsSlot(c) ==
    /\ pc[c] = "initiator"
    /\ IsSettled(result[c])
    /\ pc' = [pc EXCEPT ![c] = "done"]
    /\ op' = [op EXCEPT ![c] = "none"]
    /\ UNCHANGED <<now, ticks, cachedToken, tokenPromise, posts, inflight,
                   via, handle, result, callEpoch, acquiredAt>>
    /\ UNCHANGED <<httpVars, carrierVars>>

\* The caller that started the acquisition resumes after
\* `await this.tokenPromise` and runs the finally (ups-auth.ts 44-49).
InitiatorResume(c) ==
    /\ pc[c] = "initiator"
    /\ IsSettled(result[c])
    /\ tokenPromise' = Null
    /\ pc' = [pc EXCEPT ![c] = "done"]
    /\ op' = [op EXCEPT ![c] = "none"]
    /\ UNCHANGED <<now, ticks, cachedToken, posts, inflight,
                   via, handle, result, callEpoch, acquiredAt>>
    /\ UNCHANGED <<httpVars, carrierVars>>

\* Variant in which a caller that waited for a failed acquisition starts one
\* of its own.
JoinerResumeRetry(c) ==
    /\ pc[c] = "joiner"
    /\ IsSettled(result[c])
    /\ IF result[c].state = "rejected" /\ posts < MaxPosts
       THEN /\ posts' = posts + 1
            /\ inflight' = inflight \cup {posts + 1}
            /\ tokenPromise' = PromiseRef(posts + 1, Pending)
            /\ pc' = [pc EXCEPT ![c] = "initiator"]
            /\ result' = [result EXCEPT ![c] = Pending]
            /\ handle' = [handle EXCEPT ![c] = posts + 1]
       ELSE /\ pc' = [pc EXCEPT ![c] = "done"]
            /\ UNCHANGED <<tokenPromise, posts, inflight, result, handle>>
    /\ op' = [op EXCEPT ![c] = IF pc'[c] = "done" THEN "none" ELSE op[c]]
    /\ UNCHANGED <<now, ticks, cachedToken, via, callEpoch, acquiredAt>>
    /\ UNCHANGED <<httpVars, carrierVars>>

\* A caller that was handed this.tokenPromise (ups-auth.ts 37-39) sees it
\* settle.
JoinerResume(c) ==
    /\ pc[c] = "joiner"
    /\ IsSettled(result[c])
    /\ pc' = [pc EXCEPT ![c] = "done"]
    /\ op' = [op EXCEPT ![c] = "none"]
    /\ UNCHANGED <<now, ticks, cachedToken, tokenPromise, posts, inflight,
                   via, handle, result, callEpoch, acquiredAt>>
    /\ UNCHANGED <<httpVars, carrierVars>>

\* Variant of the clock step that drops a credential that has expired.
TickEvictsExpired ==
    /\ ticks < MaxTicks
    /\ now' = now + ClockStep(ticks)
    /\ ticks' = ticks + 1
    /\ cachedToken' = IF cachedToken # Null /\ cachedToken.expiresAt <= now'
                      THEN Null
                      ELSE cachedToken
    /\ acquiredAt' = IF cachedToken' = Null THEN 0 ELSE acquiredAt
    /\ UNCHANGED <<tokenPromise, posts, inflight>>
    /\ UNCHANGED callerVars
    /\ UNCHANGED <<httpVars, carrierVars>>

\* The wall clock advances.
Tick ==
    /\ ticks < MaxTicks
    /\ now' = now + ClockStep(ticks)
    /\ ticks' = ticks + 1
    /\ UNCHANGED <<cachedToken, tokenPromise, posts, inflight, acquiredAt>>
    /\ UNCHANGED callerVars
    /\ UNCHANGED <<httpVars, carrierVars>>

\* The provider after construction (ups-auth.ts 12-13).
InitAuth ==
    /\ now = 0
    /\ ticks = 0
    /\ cachedToken = Null
    /\ tokenPromise = Null
    /\ posts = 0
    /\ inflight = {}
    /\ pc = [c \in Callers |-> "idle"]
    /\ via = [c \in Callers |-> "none"]
    /\ handle = [c \in Callers |-> 0]
    /\ result = [c \in Callers |-> NoCall]
    /\ callEpoch = [c \in Callers |-> 0]
    /\ acquiredAt = 0
    /\ op = [c \in Callers |-> "none"]

\* ------------------------------------------------------------- HttpClient
\* JavaScript values of fields that hold a string in one case and a number
\* or undefined in another.
Undefined == [type |-> "undefined"]
Str(s) == [type |-> "string", v |-> s]
Num(n) == [type |-> "number", v |-> n]
NaN == [type |-> "number", nan |-> TRUE]

\* new CarrierNetworkError(message, statusCode, carrier, originalError):
\* error.ts 35-44
CarrierNetworkError(message, statusCode, carrier, originalError) ==
    [name |-> "CarrierNetworkError", code |-> "NETWORK_ERROR",
     message |-> message, statusCode |-> statusCode,
     carrier |-> carrier, originalError |-> originalError]

\* new CarrierRateLimitError(message, retryAfter, carrier, originalError):
\* error.ts 68-76
CarrierRateLimitError(message, retryAfter, carrier, originalError) ==
    [name |-> "CarrierRateLimitError", code |-> "RATE_LIMIT_ERROR",
     message |-> message, retryAfter |-> retryAfter,
     carrier |-> carrier, originalError |-> originalError]

\* new CarrierResponseError(message, response, carrier, originalError):
\* error.ts 87-95
CarrierResponseError(message, response, carrier, originalError) ==
    [name |-> "CarrierResponseError", code |-> "RESPONSE_ERROR",
     message |-> message, response |-> response,
     carrier |-> carrier, originalError |-> originalError]

\* new CarrierBusinessError(message, code, carrier, originalError):
\* error.ts 105-114
CarrierBusinessError(message, code, carrier, originalError) ==
    [name |-> "CarrierBusinessError", code |-> code,
     message |-> message,
     carrier |-> carrier, originalError |-> originalError]

\* parseInt(s, 10) of a string given as its sequence of characters: the
\* number its leading decimal digits spell, NaN when there is none.
Digits == <<"0", "1", "2", "3", "4", "5", "6", "7", "8", "9">>
IsDigit(ch) == \E i \in 1..Len(Digits) : Digits[i] = ch
DigitValue(ch) == (CHOOSE i \in 1..Len(Digits) : Digits[i] = ch) - 1

RECURSIVE ParseDigits(_, _)
ParseDigits(s, acc) ==
    IF s = <<>> \/ ~IsDigit(Head(s))
    THEN acc
    ELSE ParseDigits(Tail(s), acc * Len(Digits) + DigitValue(Head(s)))

ParseInt(s) ==
    IF s = <<>> \/ ~IsDigit(Head(s))
    THEN NaN
    ELSE Num(ParseDigits(s, 0))

\* Configurations given to the constructor: maxRetries may be left out.
HttpClientConfigs ==
    {[baseURL |-> ""]}
    \cup {[baseURL |-> "", maxRetries |-> k] : k \in 0..MaxConfiguredRetries}

\* config.maxRetries || 3: http-client.ts 275
HttpClientMaxRetries(config) ==
    IF "maxRetries" \in DOMAIN config /\ config.maxRetries # 0
    THEN config.maxRetries
    ELSE DEFAULT_MAX_RETRIES

\* config.retryDelay || 1000: http-client.ts 276
HttpClientRetryDelay(config) ==
    IF "retryDelay" \in DOMAIN config /\ config.retryDelay # 0
    THEN config.retryDelay
    ELSE DEFAULT_RETRY_DELAY

Methods == {"get", "post", "put", "delete"}

\* Bodies of error responses: the UPS error envelope, or anything else.
BusinessEnvelope ==
    [response |-> [errors |-> <<[code |-> "111210", message |-> "Invalid postal code"]>>]]
PlainErrorBody == [message |-> "error"]

RetryAfterValues == {<<"3", "0">>}

\* What one attempt can be rejected with before any interceptor has run.
\* shape "axios": axios.isAxiosError(error) holds; shape "mock": an object
\* with an isAxiosError property for which it does not hold (the axios
\* module is replaced by a test double); shape "error": any other value.
\* An error without a status field carries no response, one without a
\* code field has error.code undefined.
StatusFailures(sh) ==
    {[ok |-> FALSE, shape |-> sh, status |-> 400, headers |-> [server |-> "ups"],
      data |-> BusinessEnvelope],
     [ok |-> FALSE, shape |-> sh, status |-> 401, headers |-> [server |-> "ups"],
      data |-> PlainErrorBody],
     [ok |-> FALSE, shape |-> sh, status |-> 404, headers |-> [server |-> "ups"],
      data |-> PlainErrorBody],
     [ok |-> FALSE, shape |-> sh, status |-> 429, headers |-> [server |-> "ups"],
      data |-> PlainErrorBody],
     [ok |-> FALSE, shape |-> sh, status |-> 503, headers |-> [server |-> "ups"],
      data |-> PlainErrorBody]}
    \cup {[ok |-> FALSE, shape |-> sh, status |-> 429,
           headers |-> [server |-> "ups", retry_after |-> h],
           data |-> PlainErrorBody] : h \in RetryAfterValues}

NoResponseFailures(sh) ==
    {[ok |-> FALSE, shape |-> sh, code |-> c] :
        c \in {"ECONNREFUSED", "ECONNABORTED", "ECONNRESET"}}
    \cup {[ok |-> FALSE, shape |-> sh]}

\* With the axios library the instance rejects with AxiosErrors; with the
\* test double it rejects with whatever the test handed it.
AttemptFailures(lib) ==
    LET sh == IF lib = "real" THEN "axios" ELSE "mock" IN
    StatusFailures(sh) \cup NoResponseFailures(sh)
        \cup {[ok |-> FALSE, shape |-> "error"]}

AttemptAnswers(lib) ==
    {[ok |-> TRUE, data |-> [RateResponse |-> "rated"]]} \cup AttemptFailures(lib)

ShapeOf(error) == IF "shape" \in DOMAIN error THEN error.shape ELSE "error"
HasStatus(error) == "status" \in DOMAIN error
HasCode(error) == "code" \in DOMAIN error
CodeOf(error) == IF HasCode(error) THEN Str(error.code) ELSE Undefined

RETRY_CODES == {"ECONNABORTED", "ETIMEDOUT", "ENOTFOUND", "ECONNREFUSED"}

\* Variant of the status and code tests of shouldRetry() that retries any
\* response of 400 or more.
RetryableAnyStatus(error) ==
    \/ HasStatus(error) /\ error.status >= 400
    \/ HasCode(error) /\ error.code \in RETRY_CODES

\* The status and code tests of shouldRetry(): http-client.ts 398-413
\* (371-389 for a mock error).
Retryable(error) ==
    \/ HasStatus(error) /\ error.status >= 500
    \/ HasStatus(error) /\ error.status = 429
    \/ HasCode(error) /\ error.code \in RETRY_CODES

\* shouldRetry(error): http-client.ts 366-414.  A CarrierError is neither an
\* AxiosError nor an object with an isAxiosError property.
shouldRetry(error) ==
    IF ShapeOf(error) # "axios"
    THEN IF ShapeOf(error) = "mock"
         THEN Retryable(error)
         ELSE FALSE
    ELSE Retryable(error)

\* The error handleError() throws for an AxiosError (http-client.ts 421-486)
\* or for a mock error (489-562); the arguments are passed to the error
\* constructors in the order the source passes them.
ClassifiedHttpError(error, isMock) ==
    LET code == CodeOf(error) IN
    IF HasStatus(error) /\ error.status = 429
    THEN CarrierRateLimitError("Request rate limited", Str("UNKNOWN"), code,
            IF "retry_after" \in DOMAIN error.headers
            THEN ParseInt(error.headers.retry_after)
            ELSE Undefined)
    ELSE IF HasStatus(error) /\ error.status >= 500
    THEN CarrierNetworkError("Server error", Str("UNKNOWN"), code,
            Num(error.status))
    ELSE IF HasStatus(error) /\ error.status >= 400 /\ error.status < 500
    THEN IF "response" \in DOMAIN error.data
         THEN LET upsError == error.data.response.errors[1] IN
              CarrierBusinessError(upsError.message, "UPS",
                  Str(upsError.code), error.data)
         ELSE CarrierResponseError("Client error", Str("UNKNOWN"), code,
                  error.data)
    ELSE IF isMock /\ HasCode(error) /\ error.code = "ECONNABORTED"
    THEN CarrierNetworkError("Request timeout", Str("UNKNOWN"), code, Undefined)
    ELSE IF ~HasStatus(error)
    THEN CarrierNetworkError("Network error", Str("UNKNOWN"), code, Undefined)
    ELSE CarrierNetworkError("Unknown error", Str("UNKNOWN"), code,
            Num(error.status))

\* handleError(error): http-client.ts 419-570
handleError(error) ==
    IF ShapeOf(error) = "axios"
    THEN ClassifiedHttpError(error, FALSE)
    ELSE IF ShapeOf(error) = "mock"
    THEN ClassifiedHttpError(error, TRUE)
    ELSE CarrierNetworkError("Unexpected error", Str("UNKNOWN"),
            Str("UNKNOWN"), Undefined)

\* Variant in which no response interceptor is installed.
InterceptedNever(lib, error) == error

\* What requestFn() rejects with: the axios instance runs the response
\* interceptor installed by the constructor (http-client.ts 287-290); the
\* test double records the interceptor and never runs it.
Intercepted(lib, error) ==
    IF lib = "real" THEN handleError(error) ELSE error

\* get/post/put/delete up to the first await: http-client.ts 296-327,
\* 339-344.
HttpRequest(m) ==
    /\ hpc = "idle"
    /\ method' = m
    /\ hpc' = "attempt"
    /\ retryCount' = 0
    /\ UNCHANGED <<axiosLib, httpConfig, maxRetries, retryDelay,
                   answers, delays, outcome>>
    /\ UNCHANGED <<authVars, carrierVars>>

\* Variant of requestWithRetry() whose delay grows linearly.
HttpAttemptAnsweredLinearBackoff(ans) ==
    /\ hpc = "attempt"
    /\ ans \in AttemptAnswers(axiosLib)
    /\ answers' = Append(answers, ans)
    /\ IF ans.ok
       THEN /\ outcome' = Fulfilled(ans.data)
            /\ hpc' = "done"
            /\ UNCHANGED delays
       ELSE LET error == Intercepted(axiosLib, ans) IN
            IF retryCount < maxRetries /\ shouldRetry(error)
            THEN /\ delays' = Append(delays, retryDelay * (retryCount + 1))
                 /\ hpc' = "backoff"
                 /\ UNCHANGED outcome
            ELSE /\ outcome' = Rejected(error)
                 /\ hpc' = "done"
                 /\ UNCHANGED delays
    /\ UNCHANGED <<axiosLib, httpConfig, maxRetries, retryDelay, method,
                   retryCount>>
    /\ UNCHANGED <<authVars, carrierVars>>

\* The attempt in flight is answered and requestWithRetry() runs from the
\* await of requestFn() to its next await or to its end
\* (http-client.ts 344-360).
HttpAttemptAnswered(ans) ==
    /\ hpc = "attempt"
    /\ ans \in AttemptAnswers(axiosLib)
    /\ answers' = Append(answers, ans)
    /\ IF ans.ok
       THEN /\ outcome' = Fulfilled(ans.data)
            /\ hpc' = "done"
            /\ UNCHANGED delays
       ELSE LET error == Intercepted(axiosLib, ans) IN
            IF retryCount < maxRetries /\ shouldRetry(error)
            THEN /\ delays' = Append(delays, retryDelay * BACKOFF_FACTOR ^ retryCount)
                 /\ hpc' = "backoff"
                 /\ UNCHANGED outcome
            ELSE /\ outcome' = Rejected(error)
                 /\ hpc' = "done"
                 /\ UNCHANGED delays
    /\ UNCHANGED <<axiosLib, httpConfig, maxRetries, retryDelay, method,
                   retryCount>>
    /\ UNCHANGED <<authVars, carrierVars>>

\* Variant of the recursive call that passes retryCount on as it is.
HttpBackoffElapsedKeepsCount ==
    /\ hpc = "backoff"
    /\ retryCount' = retryCount
    /\ hpc' = "attempt"
    /\ UNCHANGED <<axiosLib, httpConfig, maxRetries, retryDelay, method,
                   answers, delays, outcome>>
    /\ UNCHANGED <<authVars, carrierVars>>

\* The backoff timer fires and requestWithRetry() calls itself with
\* retryCount + 1 (http-client.ts 352-355).
HttpBackoffElapsed ==
    /\ hpc = "backoff"
    /\ retryCount' = retryCount + 1
    /\ hpc' = "attempt"
    /\ UNCHANGED <<axiosLib, httpConfig, maxRetries, retryDelay, method,
                   answers, delays, outcome>>
    /\ UNCHANGED <<authVars, carrierVars>>

\* An HttpClient on which no request has been made.
HttpIdle ==
    /\ method = "none"
    /\ hpc = "idle"
    /\ retryCount = 0
    /\ answers = <<>>
    /\ delays = <<>>
    /\ outcome = NoCall

\* new HttpClient(config): http-client.ts 274-291
HttpConstructed(lib, config) ==
    /\ axiosLib = lib
    /\ httpConfig = config
    /\ maxRetries = HttpClientMaxRetries(config)
    /\ retryDelay = HttpClientRetryDelay(config)
    /\ HttpIdle

HttpUnused == HttpConstructed("real", [baseURL |-> ""])

\* ------------------------------------------------------------ UPSCarrier
CARRIER_NAME == "UPS"
ACCOUNT_NUMBER == "12345"
RATING_PATH == "/rating/v1/Rate"

\* new CarrierValidationError(message, validationErrors, carrier):
\* error.ts 52-60
CarrierValidationError(message, validationErrors, carrier) ==
    [name |-> "CarrierValidationError", code |-> "VALIDATION_ERROR",
     message |-> message, validationErrors |-> validationErrors,
     carrier |-> carrier]

\* The rate requests given to getRates(): the valid request of the tests,
\* one with two packages, and the invalid ones (no origin, an empty postal
\* code, a weight that is not positive, no package).
ValidOrigin ==
    [street1 |-> "123 Main St", city |-> "San Francisco",
     postalCode |-> "94105", country |-> "US"]
ValidDestination ==
    [street1 |-> "456 Market St", city |-> "New York",
     postalCode |-> "10001", country |-> "US"]
ValidPackage == [weight |-> 5, weightUnit |-> "LB"]
validRateRequest ==
    [origin |-> ValidOrigin, destination |-> ValidDestination,
     packages |-> <<ValidPackage>>]

InvalidRateRequests ==
    {[destination |-> ValidDestination, packages |-> <<ValidPackage>>],
     [validRateRequest EXCEPT !.origin.postalCode = ""],
     [validRateRequest EXCEPT !.packages = <<[weight |-> 0 - 5, weightUnit |-> "LB"]>>],
     [validRateRequest EXCEPT !.packages = <<[weight |-> 0, weightUnit |-> "LB"]>>],
     [validRateRequest EXCEPT !.packages = <<>>]}

RateRequests ==
    {validRateRequest,
     [validRateRequest EXCEPT
        !.packages = <<ValidPackage, [weight |-> 2, weightUnit |-> "KG"]>>]}
    \cup InvalidRateRequests

\* Number.prototype.toString() of a small natural number, and the string
\* of an array index in an issue path.
DecimalString(n) == Digits[n + 1]

\* AddressSchema.safeParse(request[field]): the issues it reports, each
\* with its path and message.
AddressIssues(request, field) ==
    IF field \notin DOMAIN request
    THEN {[path |-> <<field>>, message |-> "Required"]}
    ELSE LET address == request[field] IN
         {[path |-> <<field, "street1">>, message |-> "Street address is required"] :
            x \in {a \in {address} : a.street1 = ""}}
         \cup {[path |-> <<field, "city">>, message |-> "City is required"] :
            x \in {a \in {address} : a.city = ""}}
         \cup {[path |-> <<field, "postalCode">>, message |-> "Postal code is required"] :
            x \in {a \in {address} : a.postalCode = ""}}
         \cup {[path |-> <<field, "country">>, message |-> "Country must be 2-letter ISO code"] :
            x \in {a \in {address} : Len(a.country) # 2}}

WeightUnits == {"LB", "KG", "OZ"}

\* z.array(PackageSchema).min(1): the issues it reports.
PackageIssues(packages) ==
    {[path |-> <<"packages">>, message |-> "At least one package required"] :
        x \in {p \in {packages} : Len(p) < 1}}
    \cup {[path |-> <<"packages", DecimalString(i - 1), "weight">>,
           message |-> "Weight must be positive"] :
        i \in {j \in 1..Len(packages) : packages[j].weight <= 0}}
    \cup {[path |-> <<"packages", DecimalString(i - 1), "weightUnit">>,
           message |-> "Invalid enum value"] :
        i \in {j \in 1..Len(packages) : packages[j].weightUnit \notin WeightUnits}}

\* Variant of the schema that accepts an empty package list.
RateRequestIssuesNoMinimum(request) ==
    AddressIssues(request, "origin")
    \cup AddressIssues(request, "destination")
    \cup {i \in PackageIssues(request.packages) : i.path # <<"packages">>}

\* RateRequestSchema.parse(request): the issues of the ZodError it throws,
\* none when it returns.
RateRequestIssues(request) ==
    AddressIssues(request, "origin")
    \cup AddressIssues(request, "destination")
    \cup PackageIssues(request.packages)

\* validateRateRequest(request) and the catch of getRates() around it: the
\* error getRates() throws, Null when the request is valid.
validateRateRequest(request) ==
    LET issues == RateRequestIssues(request)
        paths == {i.path : i \in issues}
        validationErrors ==
            [p \in paths |-> {i.message : i \in {j \in issues : j.path = p}}]
    IN  IF issues = {}
        THEN Null
        ELSE CarrierValidationError("Invalid rate request", validationErrors,
                                    CARRIER_NAME)

\* UPSMapper.toUPSAddress(address)
toUPSAddress(address) ==
    [City |-> address.city, PostalCode |-> address.postalCode,
     CountryCode |-> address.country, AddressLine |-> <<address.street1>>]

\* UPSMapper.toUPSPackage(pkg, accountNumber)
toUPSPackage(pkg) ==
    [PackagingType |-> [Code |-> "02", Description |-> "Customer Supplied Package"],
     PackageWeight |->
        [Weight |-> DecimalString(pkg.weight),
         UnitOfMeasurement |->
            [Code |-> IF pkg.weightUnit = "LB" THEN "LBS"
                      ELSE IF pkg.weightUnit = "OZ" THEN "OZS"
                      ELSE "KGS"]]]

\* UPSMapper.toUPSRateRequest(request, accountNumber).  Package is the one
\* package, or the list of them: the list is kept under `list`.
toUPSRateRequest(request, accountNumber) ==
    LET packages == [i \in 1..Len(request.packages) |->
                        toUPSPackage(request.packages[i])]
    IN  [RateRequest |->
            [Request |-> [TransactionReference |-> [CustomerContext |-> "Rating"]],
             Shipment |->
                [Shipper |-> [ShipperNumber |-> accountNumber,
                              Address |-> toUPSAddress(request.origin)],
                 ShipTo |-> [Address |-> toUPSAddress(request.destination)],
                 ShipFrom |-> [Address |-> toUPSAddress(request.origin)],
                 Package |-> IF Len(packages) = 1
                             THEN packages[1]
                             ELSE [list |-> packages],
                 ShipmentRatingOptions |-> [NegotiatedRatesIndicator |-> "Y"]]]]

\* Variant of the headers that carries no token.
RatingHeadersAnonymous(token) ==
    [Authorization |-> [scheme |-> "Bearer", credentials |-> ""],
     ContentType |-> "application/json"]

\* The headers makeRatingRequest() gives to post.
RatingHeaders(token) ==
    [Authorization |-> [scheme |-> "Bearer", credentials |-> token],
     ContentType |-> "application/json"]

\* client.post('/rating/v1/Rate', request, {headers}) as it leaves
\* makeRatingRequest().
RatingPost(request, token) ==
    [url |-> RATING_PATH, body |-> request, headers |-> RatingHeaders(token)]

\* Rated shipments of a rating response.  MonetaryValue is a string, given
\* as its sequence of characters.
GroundShipment ==
    [Service |-> [Code |-> "03", Description |-> "UPS Ground"],
     TotalCharges |-> [CurrencyCode |-> "USD", MonetaryValue |-> <<"2", "5">>],
     NegotiatedRateCharges |->
        [TotalCharge |-> [CurrencyCode |-> "USD", MonetaryValue |-> <<"2", "3">>]]]
AirShipment ==
    [Service |-> [Code |-> "02", Description |-> "UPS Second Day Air"],
     TotalCharges |-> [CurrencyCode |-> "USD", MonetaryValue |-> <<"4", "5">>]]
MalformedShipment ==
    [TotalCharges |-> [CurrencyCode |-> "USD", MonetaryValue |-> <<"4", "5">>]]

SuccessStatus == [ResponseStatus |-> [Code |-> "1", Description |-> "Success"]]
FailureStatus == [ResponseStatus |-> [Code |-> "0", Description |-> "Failure"]]

\* Bodies of a 2xx answer of the rating endpoint.  RatedShipment is a list
\* (isArray) or a single shipment.
RatingBodies ==
    {[RateResponse |-> [Response |-> SuccessStatus,
                        RatedShipment |-> [isArray |-> TRUE,
                                           items |-> <<GroundShipment, AirShipment>>]]],
     [RateResponse |-> [Response |-> SuccessStatus,
                        RatedShipment |-> [isArray |-> FALSE, item |-> AirShipment]]],
     [RateResponse |-> [Response |-> SuccessStatus,
                        RatedShipment |-> [isArray |-> FALSE, item |-> MalformedShipment]]],
     [RateResponse |-> [Response |-> SuccessStatus]],
     [RateResponse |-> [Response |-> FailureStatus]],
     [Fault |-> "unexpected"]}

UPS_SERVICE_NAMES ==
    [c \in {"02", "03"} |-> IF c = "02" THEN "UPS Second Day Air" ELSE "UPS Ground"]

\* UPSMapper.normalizeRatedShipments(ratedShipment)
normalizeRatedShipments(ratedShipment) ==
    IF ratedShipment.isArray THEN ratedShipment.items ELSE <<ratedShipment.item>>

\* UPSMapper.toRateQuote(ratedShipment), for a shipment that has a Service.
toRateQuote(ratedShipment) ==
    LET serviceCode == ratedShipment.Service.Code
        charges == IF "NegotiatedRateCharges" \in DOMAIN ratedShipment
                   THEN ratedShipment.NegotiatedRateCharges.TotalCharge
                   ELSE ratedShipment.TotalCharges
    IN  [carrier |-> "UPS",
         service |-> IF serviceCode \in DOMAIN UPS_SERVICE_NAMES
                     THEN UPS_SERVICE_NAMES[serviceCode]
                     ELSE ratedShipment.Service.Description,
         serviceCode |-> serviceCode,
         totalCharge |-> ParseInt(charges.MonetaryValue),
         currency |-> charges.CurrencyCode,
         guaranteedDelivery |-> FALSE]

\* handleUPSError(errorData): what it throws.
handleUPSError(errorData) ==
    IF "response" \in DOMAIN errorData /\ "errors" \in DOMAIN errorData.response
    THEN LET firstError == errorData.response.errors[1] IN
         CarrierBusinessError(firstError.message, firstError.code,
                              Str(CARRIER_NAME), errorData)
    ELSE CarrierResponseError("Unexpected error response from UPS", errorData,
                              Str(CARRIER_NAME), Undefined)

\* parseRatingResponse(response): the quotes it returns, or the error it
\* throws.  A shipment without Service makes toRateQuote() throw a
\* TypeError, which the catch turns into a CarrierResponseError.
parseRatingResponse(response) ==
    IF "RateResponse" \notin DOMAIN response
    THEN [ok |-> FALSE,
          error |-> CarrierResponseError("Invalid response: missing RateResponse",
                                         response, Str(CARRIER_NAME), Undefined)]
    ELSE LET rateResponse == response.RateResponse IN
         IF rateResponse.Response.ResponseStatus.Code # "1"
         THEN [ok |-> FALSE,
               error |-> CarrierBusinessError(
                            rateResponse.Response.ResponseStatus.Description,
                            rateResponse.Response.ResponseStatus.Code,
                            Str(CARRIER_NAME), response)]
         ELSE IF "RatedShipment" \notin DOMAIN rateResponse
         THEN [ok |-> TRUE, quotes |-> <<>>]
         ELSE LET shipments == normalizeRatedShipments(rateResponse.RatedShipment) IN
              IF \E i \in 1..Len(shipments) : "Service" \notin DOMAIN shipments[i]
              THEN [ok |-> FALSE,
                    error |-> CarrierResponseError(
                                "Failed to parse UPS rating response", response,
                                Str(CARRIER_NAME), Undefined)]
              ELSE [ok |-> TRUE,
                    quotes |-> [i \in 1..Len(shipments) |-> toRateQuote(shipments[i])]]

\* What the post of makeRatingRequest() can be answered with.  The axios
\* instance answers with a response or fails as any attempt can; the test
\* double can also be told to reject with an error of the taxonomy, as a
\* test of the 401 branch of getRates() has to.
InjectedUnauthorized ==
    [ok |-> FALSE, shape |-> "carrier",
     error |-> CarrierNetworkError("Unauthorized", Num(401), Str(CARRIER_NAME),
                                   Undefined)]

RatingAnswers(lib) ==
    {[ok |-> TRUE, data |-> d] : d \in RatingBodies}
    \cup AttemptFailures(lib)
    \cup (IF lib = "mocked" THEN {InjectedUnauthorized} ELSE {})

\* What `await client.post(...)` throws in makeRatingRequest().
RatingRejection(lib, ans) ==
    IF ans.shape = "carrier" THEN ans.error ELSE Intercepted(lib, ans)

IsCarrierNetworkError(error) ==
    "name" \in DOMAIN error /\ error.name = "CarrierNetworkError"

\* The catch of makeRatingRequest(): what it throws for the error caught.
makeRatingRequestError(error) ==
    IF /\ IsCarrierNetworkError(error)
       /\ "response" \in DOMAIN error.originalError
       /\ "data" \in DOMAIN error.originalError.response
    THEN handleUPSError(error.originalError.response.data)
    ELSE error

\* Variant of the test of the outer catch of getRates() that takes any
\* CarrierNetworkError for an expired token.
IsUnauthorizedAnyNetworkError(error) ==
    IsCarrierNetworkError(error)

\* error instanceof CarrierNetworkError && error.statusCode === 401
IsUnauthorized(error) ==
    /\ IsCarrierNetworkError(error)
    /\ error.statusCode.type = "number"
    /\ "v" \in DOMAIN error.statusCode
    /\ error.statusCode.v = 401

\* Variant of the inner catch of getRates() that throws the retry's error.
RetryFailureThrowsRetryError(error, retryError) == retryError

\* catch (retryError) { throw error; }: what the inner catch of getRates()
\* throws.
RetryFailure(error, retryError) == error

\* No UPSCarrier is in use.
CarrierUnused ==
    /\ rpc = "off"
    /\ rateCalls = 0
    /\ rateRequest = Null
    /\ sent = <<>>
    /\ rateAnswers = <<>>
    /\ caughtError = Null
    /\ refreshes = 0
    /\ rateOutcome = NoCall

InitHttp ==
    /\ InitAuth
    /\ CarrierUnused
    /\ \E lib \in {"real", "mocked"}, config \in HttpClientConfigs :
            HttpConstructed(lib, config)

NextHttp ==
    \/ \E m \in Methods : HttpRequest(m)
    \/ \E ans \in AttemptAnswers("real") \cup AttemptAnswers("mocked") :
            HttpAttemptAnswered(ans)
    \/ HttpBackoffElapsed

SpecHttp == InitHttp /\ [][NextHttp]_vars

\* Every attempt is eventually answered (by a response, an error or the
\* timeout of the axios instance) and every backoff timer eventually
\* fires.
FairHttp ==
    /\ WF_vars(\E ans \in AttemptAnswers("real") \cup AttemptAnswers("mocked") :
                    HttpAttemptAnswered(ans))
    /\ WF_vars(HttpBackoffElapsed)

SpecHttpLive == SpecHttp /\ FairHttp

\* The provider after construction, next to a transport that is not used.
Init ==
    /\ InitAuth
    /\ HttpUnused
    /\ CarrierUnused

Next ==
    \/ \E c \in Callers : GetToken(c)
    \/ \E c \in Callers : RefreshToken(c)
    \/ ClearToken
    \/ \E e \in ExchangeIds, out \in PostOutcomes : AcquireTokenSettle(e, out)
    \/ \E c \in Callers : InitiatorResume(c)
    \/ \E c \in Callers : JoinerResume(c)
    \/ Tick

Spec == Init /\ [][Next]_vars

\* Every post is eventually answered (by a response, an error or the
\* timeout of the axios instance), and the continuation of a caller whose
\* promise has settled is eventually run.
FairAuth ==
    /\ \A e \in ExchangeIds :
            WF_vars(\E out \in PostOutcomes : AcquireTokenSettle(e, out))
    /\ \A c \in Callers : WF_vars(InitiatorResume(c))
    /\ \A c \in Callers : WF_vars(JoinerResume(c))

\* The calls that can wait and the steps that answer them, on a clock that
\* stands still.
NextWaiting ==
    \/ \E c \in Callers : GetToken(c)
    \/ \E c \in Callers : RefreshToken(c)
    \/ \E e \in ExchangeIds, out \in PostOutcomes : AcquireTokenSettle(e, out)
    \/ \E c \in Callers : InitiatorResume(c)
    \/ \E c \in Callers : JoinerResume(c)

SpecLive == Init /\ [][NextWaiting]_vars /\ FairAuth

\* -------------------------------------------- failures of the token post
\* One caller, and a token endpoint that may fail in every way the catch
\* block of acquireToken() tells apart.
FailingOutcomes == TokenResponses \cup PostFailures

NextFailures ==
    \/ GetToken(1)
    \/ RefreshToken(1)
    \/ \E e \in ExchangeIds, out \in FailingOutcomes : AcquireTokenSettle(e, out)
    \/ InitiatorResume(1)

SpecFailures == Init /\ [][NextFailures]_vars

\* ------------------------------------------------- UPSCarrier.getRates()
\* new UPSCarrier(config): its HttpClient is given maxRetries 3, and no
\* getRates() call has been made.  The carrier is caller 1 of its
\* UPSAuthProvider.
CarrierHttpConfig == [baseURL |-> "", maxRetries |-> CARRIER_MAX_RETRIES]

CarrierConstructed ==
    /\ rpc = "idle"
    /\ rateCalls = 0
    /\ rateRequest = Null
    /\ sent = <<>>
    /\ rateAnswers = <<>>
    /\ caughtError = Null
    /\ refreshes = 0
    /\ rateOutcome = NoCall

\* What the try block around makeRatingRequest() and parseRatingResponse()
\* throws when the post is answered with ans, Null when it returns.
RatingThrown(lib, ans) ==
    IF ans.ok
    THEN LET parsed == parseRatingResponse(ans.data) IN
         IF parsed.ok THEN Null ELSE parsed.error
    ELSE makeRatingRequestError(RatingRejection(lib, ans))

\* getRates(request) up to its first await: the validation, the mapping
\* and the call of authProvider.getToken().
GetRates(request) ==
    LET invalid == validateRateRequest(request) IN
    /\ rpc \in {"idle", "done"}
    /\ rateCalls < MaxRateCalls
    /\ rateCalls' = rateCalls + 1
    /\ rateRequest' = request
    /\ sent' = <<>>
    /\ rateAnswers' = <<>>
    /\ caughtError' = Null
    /\ refreshes' = 0
    /\ IF invalid # Null
       THEN /\ rateOutcome' = Rejected(invalid)
            /\ rpc' = "done"
            /\ UNCHANGED <<authVars, httpVars>>
       ELSE /\ GetTokenBody(1, cachedToken)
            /\ op' = [op EXCEPT ![1] = IF pc'[1] = "done" THEN "none" ELSE "getToken"]
            /\ rateOutcome' = Pending
            /\ rpc' = "token"

\* getRates() resumes after `await this.authProvider.getToken()`: with a
\* token it calls makeRatingRequest(), which posts the business request;
\* an error goes through the outer catch.
RatesTokenSettled ==
    /\ rpc = "token"
    /\ pc[1] = "done"
    /\ IF result[1].state = "fulfilled"
       THEN /\ sent' = Append(sent, RatingPost(
                        toUPSRateRequest(rateRequest, ACCOUNT_NUMBER),
                        result[1].value))
            /\ rpc' = "rating"
            /\ UNCHANGED <<caughtError, rateOutcome>>
       ELSE /\ caughtError' = result[1].reason
            /\ rateOutcome' = Rejected(result[1].reason)
            /\ rpc' = "done"
            /\ UNCHANGED sent
    /\ UNCHANGED <<rateCalls, rateRequest, rateAnswers, refreshes>>
    /\ UNCHANGED <<authVars, httpVars>>

\* The business post is answered with ans: makeRatingRequest() and
\* parseRatingResponse() run, and on an error the outer catch, which calls
\* authProvider.refreshToken() for a CarrierNetworkError with statusCode
\* 401.
RatingAnswered(ans) ==
    LET thrown == RatingThrown(axiosLib, ans) IN
    /\ rpc = "rating"
    /\ ans \in RatingAnswers(axiosLib)
    /\ rateAnswers' = Append(rateAnswers, ans)
    /\ IF thrown = Null
       THEN /\ rateOutcome' = Fulfilled(parseRatingResponse(ans.data).quotes)
            /\ rpc' = "done"
            /\ UNCHANGED <<caughtError, refreshes>>
            /\ UNCHANGED <<authVars, httpVars>>
       ELSE IF IsUnauthorized(thrown)
       THEN /\ caughtError' = thrown
            /\ refreshes' = refreshes + 1
            /\ GetTokenBody(1, Null)
            /\ op' = [op EXCEPT ![1] = "refreshToken"]
            /\ rpc' = "refreshing"
            /\ UNCHANGED rateOutcome
       ELSE /\ caughtError' = thrown
            /\ rateOutcome' = Rejected(thrown)
            /\ rpc' = "done"
            /\ UNCHANGED refreshes
            /\ UNCHANGED <<authVars, httpVars>>
    /\ UNCHANGED <<rateCalls, rateRequest, sent>>

\* getRates() resumes after `await this.authProvider.refreshToken()`: with
\* a token it posts the business request again; an error goes through the
\* inner catch.
RatesRefreshSettled ==
    /\ rpc = "refreshing"
    /\ pc[1] = "done"
    /\ IF result[1].state = "fulfilled"
       THEN /\ sent' = Append(sent, RatingPost(
                        toUPSRateRequest(rateRequest, ACCOUNT_NUMBER),
                        result[1].value))
            /\ rpc' = "rerating"
            /\ UNCHANGED rateOutcome
       ELSE /\ rateOutcome' = Rejected(RetryFailure(caughtError, result[1].reason))
            /\ rpc' = "done"
            /\ UNCHANGED sent
    /\ UNCHANGED <<rateCalls, rateRequest, rateAnswers, caughtError, refreshes>>
    /\ UNCHANGED <<authVars, httpVars>>

\* The second business post is answered with ans: its quotes are returned,
\* or its error goes through the inner catch.
ReratingAnswered(ans) ==
    LET thrown == RatingThrown(axiosLib, ans) IN
    /\ rpc = "rerating"
    /\ ans \in RatingAnswers(axiosLib)
    /\ rateAnswers' = Append(rateAnswers, ans)
    /\ rateOutcome' = IF thrown = Null
                      THEN Fulfilled(parseRatingResponse(ans.data).quotes)
                      ELSE Rejected(RetryFailure(caughtError, thrown))
    /\ rpc' = "done"
    /\ UNCHANGED <<rateCalls, rateRequest, sent, caughtError, refreshes>>
    /\ UNCHANGED <<authVars, httpVars>>

InitRates ==
    /\ InitAuth
    /\ \E lib \in {"real", "mocked"} : HttpConstructed(lib, CarrierHttpConfig)
    /\ CarrierConstructed

NextRates ==
    \/ \E request \in RateRequests : GetRates(request)
    \/ \E e \in ExchangeIds, out \in FailingOutcomes : AcquireTokenSettle(e, out)
    \/ InitiatorResume(1)
    \/ RatesTokenSettled
    \/ \E ans \in RatingAnswers("real") \cup RatingAnswers("mocked") :
            RatingAnswered(ans)
    \/ RatesRefreshSettled
    \/ \E ans \in RatingAnswers("real") \cup RatingAnswers("mocked") :
            ReratingAnswered(ans)

SpecRates == InitRates /\ [][NextRates]_vars

\* ------------------------------------------- the callers of each component
\* One component is used per behaviour: the request methods of an
\* HttpClient, the methods of a UPSAuthProvider, or getRates() of a
\* UPSCarrier (which uses its own provider and client).
TransportRequest(m) ==
    /\ rpc = "off"
    /\ posts = 0
    /\ HttpRequest(m)

ProviderGetToken ==
    /\ rpc = "off"
    /\ hpc = "idle"
    /\ GetToken(1)

ProviderRefreshToken ==
    /\ rpc = "off"
    /\ hpc = "idle"
    /\ RefreshToken(1)

InitCallers == InitHttp \/ InitRates

NextCallers ==
    \/ \E m \in Methods : TransportRequest(m)
    \/ \E ans \in AttemptAnswers("real") \cup AttemptAnswers("mocked") :
            HttpAttemptAnswered(ans)
    \/ HttpBackoffElapsed
    \/ ProviderGetToken
    \/ ProviderRefreshToken
    \/ \E e \in ExchangeIds, out \in FailingOutcomes : AcquireTokenSettle(e, out)
    \/ InitiatorResume(1)
    \/ \E request \in RateRequests : GetRates(request)
    \/ RatesTokenSettled
    \/ \E ans \in RatingAnswers("real") \cup RatingAnswers("mocked") :
            RatingAnswered(ans)
    \/ RatesRefreshSettled
    \/ \E ans \in RatingAnswers("real") \cup RatingAnswers("mocked") :
            ReratingAnswered(ans)

SpecCallers == InitCallers /\ [][NextCallers]_vars

\* ------------------------------------------------------------ properties
Awaiting(c) == pc[c] \in {"initiator", "joiner"}

\* The caller's latest call went past the cache and was bound to an
\* exchange that had not settled when the call was made.
InWave(c) ==
    /\ via[c] \in {"init", "renew", "join"}
    /\ handle[c] > callEpoch[c]

\* The exchange e is answered with a body that carries an access_token.
SettlesWithToken(e, out) ==
    /\ AcquireTokenSettle(e, out)
    /\ out.ok
    /\ "access_token" \in DOMAIN out.data
    /\ out.data.access_token # ""

\* C1 (single-flight): calls issued while the same exchange is unanswered
\* (none of them served from the cache) are all bound to that one exchange,
\* which is the only one sent since the last settlement, so they resolve
\* alike; and when the exchange succeeds every caller bound to it resolves
\* with the access_token of its response.
C1_OneExchangePerWave ==
    \A c1, c2 \in Callers :
        (InWave(c1) /\ InWave(c2) /\ callEpoch[c1] = callEpoch[c2]) =>
            /\ handle[c1] = handle[c2]
            /\ handle[c1] = callEpoch[c1] + 1
            /\ handle[c1] <= posts
            /\ result[c1] = result[c2]

C1_SingleFlight ==
    [][/\ C1_OneExchangePerWave'
       /\ \A e \in inflight, out \in PostOutcomes :
            SettlesWithToken(e, out) =>
                \A c \in Callers :
                    (Awaiting(c) /\ handle[c] = e) =>
                        result'[c] = Fulfilled(out.data.access_token)]_vars

C1_Witness ==
    \E c1, c2 \in Callers :
        /\ c1 # c2
        /\ pc[c1] = "done" /\ pc[c2] = "done"
        /\ via[c1] = "init" /\ via[c2] = "join"
        /\ InWave(c1) /\ InWave(c2)
        /\ handle[c1] = handle[c2]
        /\ result[c1].state = "fulfilled"
        /\ result[c2] = result[c1]

\* C2 (shared failure): when the exchange of a wave fails, all the callers
\* of the wave reject with the same error object, they are bound to one
\* exchange, and a caller that resumes on the failure sends no exchange.
C2_WaveRejectsAlike ==
    \A c1, c2 \in Callers :
        (/\ InWave(c1) /\ InWave(c2) /\ callEpoch[c1] = callEpoch[c2]
         /\ result[c1].state = "rejected") =>
            /\ handle[c1] = handle[c2]
            /\ result[c2] = result[c1]
            /\ result[c1].reason.id = handle[c1]

C2_SharedFailure ==
    [][/\ C2_WaveRejectsAlike'
       /\ \A c \in Callers :
            ((InitiatorResume(c) \/ JoinerResume(c))
                /\ result[c].state = "rejected") =>
                    /\ posts' = posts
                    /\ inflight' = inflight
                    /\ pc'[c] = "done"
                    /\ result'[c] = result[c]]_vars

C2_Witness ==
    \E c1, c2 \in Callers :
        /\ c1 # c2
        /\ pc[c1] = "done" /\ pc[c2] = "done"
        /\ via[c1] \in {"init", "renew"} /\ via[c2] = "join"
        /\ InWave(c1) /\ InWave(c2)
        /\ handle[c1] = handle[c2]
        /\ result[c1].state = "rejected"
        /\ result[c2] = result[c1]
        /\ posts = handle[c1]

\* C3: at most one token exchange is in flight, it is the one the pending
\* acquisition slot holds, and every caller still waiting for an unsettled
\* promise waits for that one.
C3_AtMostOneInFlight ==
    /\ Cardinality(inflight) <= 1
    /\ \A e \in inflight :
        /\ tokenPromise # Null
        /\ tokenPromise.id = e
        /\ tokenPromise.st = Pending
    /\ \A c \in Callers :
        (Awaiting(c) /\ result[c] = Pending) => handle[c] \in inflight

C3_Witness ==
    \E c1, c2 \in Callers :
        /\ pc[c1] = "initiator" /\ pc[c2] = "joiner"
        /\ result[c1] = Pending /\ result[c2] = Pending
        /\ posts = 2
        /\ inflight = {2}

\* C4: a getToken() or refreshToken() call made when no exchange is in
\* flight and no valid credential is found starts a new exchange and is
\* bound to it.
C4_FreshExchangeAfterSettle ==
    [][\A c \in Callers :
        (/\ inflight = {}
         /\ posts < MaxPosts
         /\ \/ GetToken(c) /\ ~hasValidToken(cachedToken, now)
            \/ RefreshToken(c)) =>
                /\ posts' = posts + 1
                /\ handle'[c] = posts + 1
                /\ result'[c] = Pending]_vars

\* C5 (cache reuse): a getToken() call made while a credential is cached
\* and now < expiresAt - 300 returns that credential's accessToken, sends
\* no exchange and leaves the credential and the pending slot as they are.
C5_CacheReuse ==
    [][\A c \in Callers :
        (/\ GetToken(c)
         /\ cachedToken # Null
         /\ now < cachedToken.expiresAt - 300) =>
                /\ result'[c] = Fulfilled(cachedToken.accessToken)
                /\ pc'[c] = "done"
                /\ posts' = posts
                /\ inflight' = inflight
                /\ cachedToken' = cachedToken
                /\ tokenPromise' = tokenPromise]_vars

C5_Witness ==
    \E c \in Callers :
        /\ pc[c] = "done"
        /\ via[c] = "cache"
        /\ cachedToken # Null
        /\ result[c] = Fulfilled(cachedToken.accessToken)
        /\ now > acquiredAt
        /\ posts = 1

\* C6 (automatic refresh): a getToken() call made while the cached
\* credential is past its buffered expiry (now >= expiresAt - 300) and the
\* pending slot is empty sends exactly one exchange; when an exchange
\* succeeds, the callers bound to it get the token of its response and the
\* cached credential becomes the one built from that response.
C6_AutomaticRefresh ==
    [][/\ \A c \in Callers :
            (/\ GetToken(c)
             /\ cachedToken # Null
             /\ now >= cachedToken.expiresAt - 300
             /\ tokenPromise = Null) =>
                    /\ posts' = posts + 1
                    /\ inflight' = {posts + 1}
                    /\ handle'[c] = posts + 1
                    /\ pc'[c] = "initiator"
       /\ \A e \in inflight, out \in PostOutcomes :
            SettlesWithToken(e, out) =>
                /\ cachedToken' # Null
                /\ cachedToken'.accessToken = out.data.access_token
                /\ cachedToken'.expiresAt = now + out.data.expires_in
                /\ \A c \in Callers :
                    (pc[c] = "initiator" /\ handle[c] = e) =>
                        result'[c] = Fulfilled(out.data.access_token)]_vars

C6_Witness ==
    \E c \in Callers :
        /\ pc[c] = "done"
        /\ via[c] = "renew"
        /\ result[c].state = "fulfilled"
        /\ cachedToken # Null
        /\ cachedToken.accessToken = result[c].value
        /\ acquiredAt > 0

\* C7: hasValidToken() is true exactly when a credential is cached and
\* now < expiresAt - 300, where expiresAt is the acquisition time plus the
\* issued lifetime: with lifetime 600 it is true on [T, T+300) and false
\* from T+300 on, and with a lifetime of at most 300 it is never true.
C7_BufferedValidity ==
    /\ hasValidToken(cachedToken, now) <=>
          (cachedToken # Null /\ now < cachedToken.expiresAt - 300)
    /\ cachedToken # Null =>
        /\ hasValidToken(cachedToken, now) <=>
              (now < acquiredAt + cachedToken.expiresIn - 300)
        /\ cachedToken.expiresIn = 600 =>
              (hasValidToken(cachedToken, now) <=> (now - acquiredAt < 300))
        /\ cachedToken.expiresIn <= 300 => ~hasValidToken(cachedToken, now)

C7_Witness ==
    /\ cachedToken # Null
    /\ cachedToken.expiresIn = 600
    /\ now = acquiredAt + 300
    /\ ~hasValidToken(cachedToken, now)

\* C8: getTimeUntilExpiry() is max(0, expiresAt - now) when a credential
\* is cached and 0 otherwise, it is never negative, and the refresh buffer
\* plays no part in it.
C8_TimeUntilExpiry ==
    LET v == getTimeUntilExpiry(cachedToken, now) IN
    /\ v >= 0
    /\ cachedToken = Null => v = 0
    /\ cachedToken # Null =>
        LET raw == acquiredAt + cachedToken.expiresIn - now IN
        /\ raw = cachedToken.expiresAt - now
        /\ v = (IF raw > 0 THEN raw ELSE 0)

C8_Witness ==
    /\ cachedToken # Null
    /\ getTimeUntilExpiry(cachedToken, now) > 0
    /\ ~hasValidToken(cachedToken, now)

\* C9 (zero state): whenever no credential is cached, getTimeUntilExpiry()
\* is 0 and hasValidToken() is false.
C9_ZeroState ==
    cachedToken = Null =>
        /\ getTimeUntilExpiry(cachedToken, now) = 0
        /\ hasValidToken(cachedToken, now) = FALSE

C9_Witness ==
    /\ cachedToken = Null
    /\ posts = 2
    /\ now > 0
    /\ \E c \in Callers :
        /\ pc[c] = "done"
        /\ handle[c] = 2
        /\ result[c].state = "rejected"

\* C10 (missing token): when the endpoint answers with a body that has no
\* access_token, the acquisition rejects with a CarrierAuthError (code
\* AUTH_ERROR), every caller bound to it gets that rejection, no
\* credential is cached when acquireToken() ends, and none is cached when
\* the caller that started the acquisition resumes with the rejection.
C10_MissingTokenRejected ==
    [][/\ \A e \in inflight, out \in PostOutcomes :
            (/\ AcquireTokenSettle(e, out)
             /\ out.ok
             /\ "access_token" \notin DOMAIN out.data) =>
                    /\ cachedToken' = Null
                    /\ \A c \in Callers :
                        (Awaiting(c) /\ handle[c] = e) =>
                            /\ result'[c].state = "rejected"
                            /\ result'[c].reason.name = "CarrierAuthError"
                            /\ result'[c].reason.code = "AUTH_ERROR"
       /\ \A c \in Callers :
            (/\ pc'[c] = "initiator"
             /\ result'[c].state = "rejected"
             /\ "message" \in DOMAIN result'[c].reason.originalError
             /\ result'[c].reason.originalError.message =
                    "Invalid token response: missing access_token") =>
                cachedToken' = Null]_vars

C10_Witness ==
    \E c \in Callers :
        /\ pc[c] = "done"
        /\ via[c] \in {"init", "renew"}
        /\ result[c].state = "rejected"
        /\ result[c].reason.code = "AUTH_ERROR"
        /\ result[c].reason.message = "Unexpected error during token acquisition"
        /\ result[c].reason.originalError.name = "CarrierAuthError"
        /\ result[c].reason.originalError.message =
                "Invalid token response: missing access_token"
        /\ cachedToken = Null

\* C11 (failure leaves no credential): while the latest answered exchange
\* is one that failed, no credential is cached and hasValidToken() is
\* false; in particular none is cached when the call that started the
\* failed exchange resumes with the rejection, whatever was cached when
\* the exchange started.
C11_FailureLeavesNoCredential ==
    \A c \in Callers :
        (/\ result[c].state = "rejected"
         /\ pc[c] = "initiator" \/ handle[c] = SettledCount) =>
            /\ cachedToken = Null
            /\ hasValidToken(cachedToken, now) = FALSE

C11_Witness ==
    \E c \in Callers :
        /\ pc[c] = "done"
        /\ via[c] = "renew"
        /\ result[c].state = "rejected"
        /\ handle[c] = SettledCount
        /\ cachedToken = Null
        /\ now > 0

\* C12 (failures are Auth errors): whatever the token post fails with (a
\* response of 401, 403, 429 or another status, no response, an error that
\* is not an HTTP error, a body without access_token), the call rejects
\* with a CarrierAuthError whose code is AUTH_ERROR.
C12_FailuresAreAuthErrors ==
    \A c \in Callers :
        result[c].state = "rejected" =>
            /\ result[c].reason.name = "CarrierAuthError"
            /\ result[c].reason.code = "AUTH_ERROR"

C12_Witness ==
    /\ pc[1] = "done"
    /\ result[1].state = "rejected"
    /\ result[1].reason.code = "AUTH_ERROR"
    /\ result[1].reason.message = "Authentication rate limited by UPS"
    /\ posts = 2

\* C13 as stated: refreshToken() called while a credential is cached and no
\* acquisition is pending sends a new exchange, resolves with the token of
\* that exchange, and the credential is valid (now < expiresAt - 300) when
\* the exchange has completed.
C13_RefreshLeavesValidToken ==
    [][/\ \A c \in Callers :
            (RefreshToken(c) /\ cachedToken # Null /\ tokenPromise = Null) =>
                /\ posts' = posts + 1
                /\ handle'[c] = posts + 1
                /\ pc'[c] = "initiator"
       /\ \A e \in inflight, out \in PostOutcomes :
            SettlesWithToken(e, out) =>
                \A c \in Callers :
                    (op[c] = "refreshToken" /\ pc[c] = "initiator" /\ handle[c] = e) =>
                        /\ result'[c] = Fulfilled(out.data.access_token)
                        /\ cachedToken' # Null
                        /\ cachedToken'.accessToken = out.data.access_token
                        /\ now' < cachedToken'.expiresAt - 300]_vars

\* C13 (forced refresh, amended): refreshToken() called while a credential
\* is cached and no acquisition is pending sends a new exchange and resolves
\* with the token of that exchange; when the exchange has completed, the
\* credential is valid exactly if the lifetime it was issued with exceeds
\* 300 s.
C13_ForcedRefresh ==
    [][/\ \A c \in Callers :
            (RefreshToken(c) /\ cachedToken # Null /\ tokenPromise = Null) =>
                /\ posts' = posts + 1
                /\ handle'[c] = posts + 1
                /\ pc'[c] = "initiator"
       /\ \A e \in inflight, out \in PostOutcomes :
            SettlesWithToken(e, out) =>
                \A c \in Callers :
                    (op[c] = "refreshToken" /\ pc[c] = "initiator" /\ handle[c] = e) =>
                        /\ result'[c] = Fulfilled(out.data.access_token)
                        /\ cachedToken' # Null
                        /\ cachedToken'.accessToken = out.data.access_token
                        /\ (now' < cachedToken'.expiresAt - 300)
                                <=> (out.data.expires_in > 300)]_vars

C13_Witness ==
    \E c \in Callers :
        /\ op[c] = "refreshToken"
        /\ pc[c] = "initiator"
        /\ handle[c] = 2
        /\ result[c].state = "fulfilled"
        /\ cachedToken # Null
        /\ cachedToken.accessToken = result[c].value
        /\ now < cachedToken.expiresAt - 300
        /\ acquiredAt > 0

\* C14 (refresh is single-flight): refreshToken() always discards the
\* cached credential; if an acquisition is pending it sends nothing and is
\* bound to the pending promise, whose settlement it receives; otherwise it
\* sends exactly one exchange.
C14_RefreshSingleFlight ==
    [][/\ \A c \in Callers :
            RefreshToken(c) =>
                /\ cachedToken' = Null
                /\ IF tokenPromise # Null
                   THEN /\ posts' = posts
                        /\ inflight' = inflight
                        /\ tokenPromise' = tokenPromise
                        /\ pc'[c] = "joiner"
                        /\ handle'[c] = tokenPromise.id
                        /\ result'[c] = tokenPromise.st
                   ELSE /\ posts' = posts + 1
                        /\ inflight' = inflight \cup {posts + 1}
                        /\ pc'[c] = "initiator"
                        /\ handle'[c] = posts + 1
       /\ \A e \in inflight, out \in PostOutcomes :
            AcquireTokenSettle(e, out) =>
                \A c \in Callers :
                    (op[c] = "refreshToken" /\ pc[c] = "joiner" /\ handle[c] = e) =>
                        /\ result'[c] = AcquireOutcome(e, out, now).settled
                        /\ posts' = posts
                        /\ \A d \in Callers :
                            (pc[d] = "initiator" /\ handle[d] = e) =>
                                result'[d] = result'[c]]_vars

C14_Witness ==
    \E c, d \in Callers :
        /\ op[c] = "refreshToken"
        /\ pc[c] = "joiner"
        /\ pc[d] = "initiator"
        /\ handle[c] = handle[d]
        /\ result[c].state = "fulfilled"
        /\ result[d] = result[c]
        /\ posts = 1

\* C15 (clearToken): clearToken() leaves no credential cached, so that
\* hasValidToken() is false right after it; it sends nothing and leaves the
\* pending slot, the exchange in flight and every waiting call as they are.
C15_ClearTokenOnlyClears ==
    [][ClearToken =>
        /\ cachedToken' = Null
        /\ hasValidToken(cachedToken', now') = FALSE
        /\ posts' = posts
        /\ inflight' = inflight
        /\ tokenPromise' = tokenPromise
        /\ pc' = pc
        /\ handle' = handle
        /\ result' = result]_vars

C15_Witness ==
    /\ cachedToken = Null
    /\ \A d \in Callers : op[d] # "refreshToken"
    /\ \E c \in Callers :
        /\ pc[c] = "initiator"
        /\ via[c] = "renew"
        /\ result[c] = Pending
        /\ inflight = {handle[c]}
        /\ tokenPromise = PromiseRef(handle[c], Pending)

\* C16 as stated: whatever lifetime the endpoint issues, a getToken() call
\* that is served from the cache, or whose exchange completes with a token,
\* gets the accessToken of the cached credential and that credential is
\* valid (now < expiresAt - 300) at that moment.
C16_ValidTokenHandedOut ==
    [][/\ \A c \in Callers :
            (GetToken(c) /\ pc'[c] = "done") =>
                /\ cachedToken' # Null
                /\ result'[c] = Fulfilled(cachedToken'.accessToken)
                /\ now' < cachedToken'.expiresAt - 300
       /\ \A e \in inflight, out \in PostOutcomes :
            SettlesWithToken(e, out) =>
                \A c \in Callers :
                    (op[c] = "getToken" /\ Awaiting(c) /\ handle[c] = e) =>
                        /\ cachedToken' # Null
                        /\ result'[c] = Fulfilled(cachedToken'.accessToken)
                        /\ now' < cachedToken'.expiresAt - 300]_vars

\* C16 (amended): a getToken() call that is served from the cache, or whose
\* exchange completes with a token issued with a lifetime of more than
\* 300 s, gets the accessToken of the cached credential and that credential
\* is valid (now < expiresAt - 300) at that moment; a token issued with a
\* lifetime of at most 300 s is handed out although it is not valid.
C16_ValidTokenForLongLifetimes ==
    [][/\ \A c \in Callers :
            (GetToken(c) /\ pc'[c] = "done") =>
                /\ cachedToken' # Null
                /\ result'[c] = Fulfilled(cachedToken'.accessToken)
                /\ now' < cachedToken'.expiresAt - 300
       /\ \A e \in inflight, out \in PostOutcomes :
            SettlesWithToken(e, out) =>
                \A c \in Callers :
                    (op[c] = "getToken" /\ Awaiting(c) /\ handle[c] = e) =>
                        /\ cachedToken' # Null
                        /\ result'[c] = Fulfilled(cachedToken'.accessToken)
                        /\ (now' < cachedToken'.expiresAt - 300)
                                <=> (out.data.expires_in > 300)]_vars

C16_Witness ==
    \E c, d \in Callers :
        /\ c # d
        /\ op[c] = "getToken" /\ op[d] = "getToken"
        /\ pc[c] = "initiator" /\ pc[d] = "joiner"
        /\ handle[c] = handle[d]
        /\ result[c].state = "fulfilled"
        /\ result[d] = result[c]
        /\ cachedToken # Null
        /\ cachedToken.accessToken = result[c].value
        /\ cachedToken.expiresIn = 600
        /\ now < cachedToken.expiresAt - 300

\* C17 as stated: on an HttpClient whose response interceptor is installed,
\* a request whose every attempt is answered with a 5xx or a 429 status and
\* that has ended in an error has made maxRetries + 1 attempts.
C17_RetryCeiling ==
    (/\ axiosLib = "real"
     /\ hpc = "done"
     /\ outcome.state = "rejected"
     /\ \A i \in 1..Len(answers) :
            /\ HasStatus(answers[i])
            /\ answers[i].status >= 500 \/ answers[i].status = 429) =>
        Len(answers) = maxRetries + 1

\* C18 (terminal 4xx): an attempt answered with a status in [400, 500)
\* other than 429 is the last attempt of its request: the request has then
\* ended in an error without waiting or trying again, and has made a single
\* attempt when that answer was its first.
C18_ClientErrorsNotRetried ==
    \A i \in 1..Len(answers) :
        (/\ HasStatus(answers[i])
         /\ answers[i].status >= 400
         /\ answers[i].status < 500
         /\ answers[i].status # 429) =>
            /\ i = Len(answers)
            /\ hpc = "done"
            /\ outcome.state = "rejected"
            /\ Len(delays) = i - 1

C18_Witness ==
    /\ hpc = "done"
    /\ retryCount < maxRetries
    /\ Len(answers) = 2
    /\ HasStatus(answers[1]) /\ answers[1].status = 503
    /\ HasStatus(answers[2]) /\ answers[2].status = 404
    /\ outcome.state = "rejected"

\* C19 as stated: on an HttpClient whose response interceptor is installed,
\* a request that has ended after an attempt that got no response (a
\* connection failure or a timeout, with or without an error code) has used
\* up its retries and ended in a NETWORK_ERROR.
C19_ConnectionFailuresRetried ==
    (/\ axiosLib = "real"
     /\ hpc = "done"
     /\ Len(answers) > 0
     /\ ~answers[Len(answers)].ok
     /\ ShapeOf(answers[Len(answers)]) # "error"
     /\ ~HasStatus(answers[Len(answers)])) =>
        /\ retryCount = maxRetries
        /\ Len(answers) = maxRetries + 1
        /\ outcome.state = "rejected"
        /\ "code" \in DOMAIN outcome.reason
        /\ outcome.reason.code = "NETWORK_ERROR"

\* C20 as stated: a request on an HttpClient whose response interceptor is
\* installed that has ended on a 429 answer is rejected with a
\* CarrierRateLimitError whose retryAfter is the number parsed from the
\* retry-after header when the answer has one and undefined when it has
\* none.
C20_RetryAfterCarried ==
    (/\ axiosLib = "real"
     /\ hpc = "done"
     /\ Len(answers) > 0
     /\ HasStatus(answers[Len(answers)])
     /\ answers[Len(answers)].status = 429) =>
        LET last == answers[Len(answers)] IN
        /\ outcome.state = "rejected"
        /\ outcome.reason.name = "CarrierRateLimitError"
        /\ outcome.reason.code = "RATE_LIMIT_ERROR"
        /\ IF "retry_after" \in DOMAIN last.headers
           THEN /\ outcome.reason.retryAfter.type = "number"
                /\ outcome.reason.retryAfter = ParseInt(last.headers.retry_after)
           ELSE outcome.reason.retryAfter.type = "undefined"

\* C21 as stated: a request on an HttpClient whose response interceptor is
\* installed that has ended on an answer with status s >= 500 is rejected
\* with a CarrierNetworkError whose statusCode is the number s.
C21_ServerErrorCarriesStatus ==
    (/\ axiosLib = "real"
     /\ hpc = "done"
     /\ Len(answers) > 0
     /\ HasStatus(answers[Len(answers)])
     /\ answers[Len(answers)].status >= 500) =>
        /\ outcome.state = "rejected"
        /\ outcome.reason.name = "CarrierNetworkError"
        /\ outcome.reason.code = "NETWORK_ERROR"
        /\ outcome.reason.statusCode.type = "number"
        /\ outcome.reason.statusCode = Num(answers[Len(answers)].status)

\* C22 as stated: a request on an HttpClient whose response interceptor is
\* installed that has ended on an answer with a status in [400, 500) other
\* than 429 is rejected, when the body is the business-error envelope, with
\* a CarrierBusinessError whose code and message are those of the first
\* entry of response.errors, and otherwise with a CarrierResponseError
\* whose response field is the body.
C22_ClientErrorClassified ==
    (/\ axiosLib = "real"
     /\ hpc = "done"
     /\ Len(answers) > 0
     /\ HasStatus(answers[Len(answers)])
     /\ answers[Len(answers)].status >= 400
     /\ answers[Len(answers)].status < 500
     /\ answers[Len(answers)].status # 429) =>
        LET data == answers[Len(answers)].data IN
        /\ outcome.state = "rejected"
        /\ IF "response" \in DOMAIN data
           THEN /\ outcome.reason.name = "CarrierBusinessError"
                /\ outcome.reason.code = data.response.errors[1].code
                /\ outcome.reason.message = data.response.errors[1].message
           ELSE /\ outcome.reason.name = "CarrierResponseError"
                /\ "type" \notin DOMAIN outcome.reason.response
                /\ outcome.reason.response = data

\* C23 as stated: a request on an HttpClient whose response interceptor is
\* installed that has ended on an attempt that got no response is rejected
\* with a CarrierNetworkError whose carrier is undefined and whose
\* statusCode is undefined.
C23_NoResponseCarrierless ==
    (/\ axiosLib = "real"
     /\ hpc = "done"
     /\ Len(answers) > 0
     /\ ~answers[Len(answers)].ok
     /\ ShapeOf(answers[Len(answers)]) = "axios"
     /\ ~HasStatus(answers[Len(answers)])) =>
        /\ outcome.state = "rejected"
        /\ outcome.reason.name = "CarrierNetworkError"
        /\ outcome.reason.carrier.type = "undefined"
        /\ outcome.reason.statusCode.type = "undefined"

\* C29 as stated: a call of getToken() or refreshToken() that was rejected
\* because its token post failed transiently (a status >= 500, or no
\* response) was rejected only after DEFAULT_MAX_RETRIES + 1 posts had been
\* made for it.
C29_TokenExchangeRetried ==
    \A c \in Callers :
        (/\ pc[c] = "done"
         /\ result[c].state = "rejected"
         /\ "shape" \in DOMAIN result[c].reason.originalError
         /\ \/ "status" \notin DOMAIN result[c].reason.originalError
            \/ result[c].reason.originalError.status >= 500) =>
            posts - callEpoch[c] >= DEFAULT_MAX_RETRIES + 1

\* C25 as stated: a getRates() call on the axios instance whose first
\* business request was answered with status 401 has called refreshToken()
\* exactly once, and has posted at most one more business request, the
\* same as the first, with the token refreshToken() returned.
C25_UnauthorizedRefreshedOnce ==
    (/\ axiosLib = "real"
     /\ rpc = "done"
     /\ Len(rateAnswers) >= 1
     /\ HasStatus(rateAnswers[1])
     /\ rateAnswers[1].status = 401) =>
        /\ refreshes = 1
        /\ Len(sent) <= 2
        /\ Len(sent) = 2 =>
            /\ sent[2].url = sent[1].url
            /\ sent[2].body = sent[1].body

\* C26: a getRates() call that went through its refresh-and-retry and was
\* rejected (refreshToken() failed, or the second business request or the
\* parsing of its answer did) is rejected with the error its first
\* business request was rejected with.
C26_RetryFailureKeepsOriginalError ==
    (/\ rpc = "done"
     /\ refreshes >= 1
     /\ rateOutcome.state = "rejected") =>
        /\ Len(rateAnswers) >= 1
        /\ rateOutcome.reason = RatingThrown(axiosLib, rateAnswers[1])

\* The second business request was answered with a failure other than the
\* first one's, and getRates() was rejected.
C26_Witness ==
    /\ rpc = "done"
    /\ refreshes = 1
    /\ Len(rateAnswers) = 2
    /\ rateOutcome.state = "rejected"
    /\ RatingThrown(axiosLib, rateAnswers[2]) # Null
    /\ RatingThrown(axiosLib, rateAnswers[2]) # RatingThrown(axiosLib, rateAnswers[1])

\* C27: a getRates() call with a request that fails the schema (no origin,
\* an empty postal code, a weight that is not positive, no package) is
\* rejected in the step that makes the call with a CarrierValidationError,
\* posts nothing to the token endpoint and no business request, and stays
\* so until the next call.
C27_ValidationPrecedesNetwork ==
    /\ [][(rateCalls' = rateCalls + 1 /\ rateRequest' \in InvalidRateRequests) =>
            /\ rpc' = "done"
            /\ rateOutcome'.state = "rejected"
            /\ rateOutcome'.reason.name = "CarrierValidationError"
            /\ rateOutcome'.reason.code = "VALIDATION_ERROR"
            /\ posts' = posts
            /\ inflight' = inflight
            /\ pc' = pc
            /\ sent' = <<>>]_vars
    /\ []((rpc # "off" /\ rateRequest \in InvalidRateRequests) =>
            /\ rpc = "done"
            /\ sent = <<>>
            /\ rateAnswers = <<>>
            /\ rateOutcome.state = "rejected"
            /\ rateOutcome.reason.name = "CarrierValidationError")

\* An invalid request was rejected by a carrier that had already obtained
\* a token for an earlier call.
C27_Witness ==
    /\ rpc = "done"
    /\ rateCalls = 2
    /\ posts = 1
    /\ cachedToken # Null
    /\ rateRequest \in InvalidRateRequests
    /\ rateOutcome.state = "rejected"

\* C28 as stated: a getRates() call on the axios instance that was
\* rejected after a business request failed transiently (a status >= 500,
\* status 429, or no response) has posted the business request
\* maxRetries + 1 times.
C28_TransientRatingFailuresRetried ==
    (/\ axiosLib = "real"
     /\ rpc = "done"
     /\ rateOutcome.state = "rejected"
     /\ Len(rateAnswers) >= 1
     /\ ~rateAnswers[Len(rateAnswers)].ok
     /\ \/ ~HasStatus(rateAnswers[Len(rateAnswers)])
        \/ rateAnswers[Len(rateAnswers)].status >= 500
        \/ rateAnswers[Len(rateAnswers)].status = 429) =>
        Len(sent) = maxRetries + 1

\* C30: getRates() posts a business request only in the step in which it
\* resumes with the token that getToken() (first request) or
\* refreshToken() (second request) was fulfilled with, and the request
\* carries 'Authorization: Bearer <that token>'; a call whose getToken()
\* was rejected posts no business request and is rejected with that
\* CarrierAuthError.
C30_TokenBeforeRequest ==
    /\ [][Len(sent') > Len(sent) =>
            /\ Len(sent') = Len(sent) + 1
            /\ pc[1] = "done"
            /\ result[1].state = "fulfilled"
            /\ Len(sent') = 1 => rpc = "token"
            /\ Len(sent') = 2 => rpc = "refreshing"
            /\ sent'[Len(sent')].headers.Authorization =
                    [scheme |-> "Bearer", credentials |-> result[1].value]]_vars
    /\ []((/\ rpc = "done"
           /\ rateRequest \notin InvalidRateRequests
           /\ refreshes = 0
           /\ result[1].state = "rejected") =>
            /\ sent = <<>>
            /\ rateOutcome = Rejected(result[1].reason)
            /\ rateOutcome.reason.name = "CarrierAuthError")

\* On the axios instance, a call obtained a token and its business request
\* was answered with quotes.
C30_Witness ==
    /\ axiosLib = "real"
    /\ rpc = "done"
    /\ Len(sent) = 1
    /\ sent[1].headers.Authorization.credentials \in AccessTokens
    /\ rateOutcome.state = "fulfilled"
    /\ Len(rateOutcome.value) = 2

\* C24: every rejection seen by a caller of getToken() or refreshToken()
\* is an error of the taxonomy, and so is, where the response interceptor
\* of the HttpClient runs (the axios library), every rejection seen by a
\* caller of get/post/put/delete or of getRates(): no answer of the
\* transport reaches a caller as it was.
C24_OnlyClassifiedErrorsEscape ==
    LET Kinds == {"CarrierAuthError", "CarrierNetworkError", "CarrierRateLimitError",
                  "CarrierValidationError", "CarrierBusinessError",
                  "CarrierResponseError", "CarrierConfigError"}
        Classified(p) ==
            p.state = "rejected" =>
                /\ "name" \in DOMAIN p.reason
                /\ p.reason.name \in Kinds
                /\ "ok" \notin DOMAIN p.reason
    IN  /\ \A c \in Callers : Classified(result[c])
        /\ axiosLib = "real" => Classified(outcome) /\ Classified(rateOutcome)

\* On the axios library, getRates() was rejected after its business
\* request got no response.
C24_Witness ==
    /\ axiosLib = "real"
    /\ rpc = "done"
    /\ Len(rateAnswers) = 1
    /\ ~rateAnswers[1].ok
    /\ ~HasStatus(rateAnswers[1])
    /\ rateOutcome.state = "rejected"
    /\ rateOutcome.reason.name = "CarrierNetworkError"

\* C31 as stated: in every state in which a token exchange is in flight no
\* credential is cached, so hasValidToken() is false and
\* getTimeUntilExpiry() is 0.
C31_NoCredentialDuringExchange ==
    inflight # {} =>
        /\ cachedToken = Null
        /\ ~hasValidToken(cachedToken, now)
        /\ getTimeUntilExpiry(cachedToken, now) = 0

\* C32: within one request the n-th delay waited is retryDelay * 2^(n-1),
\* each delay is larger than the one before, and the attempts started
\* never outnumber the delays that have elapsed by more than one: an
\* attempt is in flight only after every delay so far has elapsed, and
\* none is while a delay is being waited.
C32_ExponentialBackoff ==
    LET started == Len(answers) + (IF hpc = "attempt" THEN 1 ELSE 0)
        elapsed == Len(delays) - (IF hpc = "backoff" THEN 1 ELSE 0)
    IN  /\ \A n \in 1..Len(delays) : delays[n] = retryDelay * 2 ^ (n - 1)
        /\ \A n \in 1..(Len(delays) - 1) : delays[n] < delays[n + 1]
        /\ hpc # "idle" => started = elapsed + 1
        /\ hpc = "backoff" => Len(answers) = Len(delays)

\* A fourth attempt is in flight after delays of 1000, 2000 and 4000 ms.
C32_Witness ==
    /\ hpc = "attempt"
    /\ retryDelay = DEFAULT_RETRY_DELAY
    /\ delays = <<1000, 2000, 4000>>
    /\ Len(answers) = 3

C34_AcquisitionLiveness ==
    /\ \A c \in Callers :
            Awaiting(c) ~> (pc[c] = "done" /\ IsSettled(result[c]))
    /\ (tokenPromise # Null) ~> (tokenPromise = Null)

\* The caller that started an acquisition and the one that joined it have
\* both been answered, and the slot is empty.
C34_Witness ==
    /\ pc[1] = "done" /\ via[1] \in {"init", "renew"}
    /\ pc[2] = "done" /\ via[2] = "join"
    /\ handle[1] = handle[2]
    /\ IsSettled(result[1])
    /\ IsSettled(result[2])
    /\ tokenPromise = Null

\* C35: a cached credential has expiresAt = the time at which it was
\* constructed + expiresIn and a non-empty accessToken that a token
\* response carried; and cachedToken changes only by being set to null or,
\* in a step that completes exactly one exchange, by being set to a
\* credential constructed from the clock and the response of that step.
C35_CredentialWellFormed ==
    /\ [](cachedToken # Null =>
            /\ cachedToken.expiresAt = acquiredAt + cachedToken.expiresIn
            /\ acquiredAt <= now
            /\ cachedToken.accessToken # ""
            /\ \E out \in TokenResponses :
                    /\ "access_token" \in DOMAIN out.data
                    /\ out.data.access_token = cachedToken.accessToken
                    /\ out.data.expires_in = cachedToken.expiresIn
                    /\ out.data.token_type = cachedToken.tokenType)
    /\ [][cachedToken' # cachedToken =>
            \/ cachedToken' = Null
            \/ /\ Cardinality(inflight \ inflight') = 1
               /\ inflight' \subseteq inflight
               /\ now' = now
               /\ acquiredAt' = now
               /\ cachedToken'.expiresAt = now + cachedToken'.expiresIn]_vars

\* A credential constructed at a later time has replaced an earlier one.
C35_Witness ==
    /\ cachedToken # Null
    /\ posts = 2
    /\ inflight = {}
    /\ acquiredAt > 0
    /\ cachedToken.expiresIn = 600
    /\ cachedToken.expiresAt = acquiredAt + 600

\* C36 as stated, for the transport: a request on an HttpClient whose
\* response interceptor is installed that was rejected after an attempt
\* failed with an AxiosError is rejected with an error whose originalError
\* is that AxiosError.
C36_CausePreserved ==
    (/\ axiosLib = "real"
     /\ hpc = "done"
     /\ outcome.state = "rejected"
     /\ Len(answers) > 0
     /\ ~answers[Len(answers)].ok
     /\ ShapeOf(answers[Len(answers)]) = "axios") =>
        /\ "originalError" \in DOMAIN outcome.reason
        /\ outcome.reason.originalError = answers[Len(answers)]

\* C37: a getRates() call calls refreshToken() at most once and posts at
\* most two business requests; a call whose first business request failed
\* otherwise than with a 401 (a failure of the post, or an answer that
\* parseRatingResponse() refuses) has ended without calling refreshToken(),
\* with one request posted and rejected with that failure's error; and a
\* call whose getToken() failed has ended with no refreshToken() call, no
\* request posted and rejected with the error of getToken().
C37_NoRecoveryBeyondOneRetry ==
    LET first == rateAnswers[1]
        is401 == ~first.ok /\ (first.shape = "carrier"
                               \/ (HasStatus(first) /\ first.status = 401))
    IN  /\ refreshes <= 1
        /\ Len(sent) <= 2
        /\ Len(rateAnswers) <= Len(sent)
        /\ (/\ Len(rateAnswers) >= 1
            /\ RatingThrown(axiosLib, first) # Null
            /\ ~is401) =>
                /\ rpc = "done"
                /\ refreshes = 0
                /\ Len(sent) = 1
                /\ Len(rateAnswers) = 1
                /\ rateOutcome = Rejected(RatingThrown(axiosLib, first))
        /\ (/\ rpc = "done"
            /\ rateRequest \notin InvalidRateRequests
            /\ rateAnswers = <<>>) =>
                /\ refreshes = 0
                /\ sent = <<>>
                /\ result[1].state = "rejected"
                /\ rateOutcome = Rejected(result[1].reason)

\* On the axios library, a call whose business request was answered 429
\* has ended with a CarrierRateLimitError and no refresh.
C37_Witness ==
    /\ axiosLib = "real"
    /\ rpc = "done"
    /\ Len(rateAnswers) = 1
    /\ HasStatus(rateAnswers[1])
    /\ rateAnswers[1].status = 429
    /\ refreshes = 0
    /\ Len(sent) = 1
    /\ rateOutcome.state = "rejected"
    /\ rateOutcome.reason.name = "CarrierRateLimitError"

\* Caller c holds no pending call.
Free(c) == pc[c] \in {"idle", "done"}

\* A step in which an exchange completes.
ExchangeCompletes ==
    inflight' # inflight /\ inflight' \subseteq inflight /\ posts' = posts

\* A step in which a caller calls refreshToken().
RefreshTokenCalled ==
    \E c \in Callers :
        Free(c) /\ pc'[c] \notin {"idle", "done"} /\ op'[c] = "refreshToken"

\* A step that touches nothing but the credential.
OnlyCredentialTouched ==
    /\ UNCHANGED <<now, ticks, tokenPromise, posts, inflight>>
    /\ UNCHANGED callerVars

\* A step in which a caller calls getToken(): it waits for the promise
\* it created or was handed, or is answered from the cache.
GetTokenCalled ==
    \E c \in Callers :
        /\ Free(c)
        /\ \/ pc'[c] \notin {"idle", "done"} /\ op'[c] = "getToken"
           \/ /\ via'[c] = "cache"
              /\ pc'[c] = "done"
              /\ <<pc[c], via[c], result[c], handle[c], callEpoch[c]>>
                    # <<pc'[c], via'[c], result'[c], handle'[c], callEpoch'[c]>>

\* C38: cachedToken becomes a (new) credential only in a step that
\* completes an exchange; it becomes null only in such a step, in a
\* refreshToken() call or in clearToken(); a getToken() call, whether it is
\* served from the cache, handed the pending promise or starts an
\* acquisition, leaves it as it is, and so does the advance of the clock.
C38_CredentialTransitions ==
    [][/\ (cachedToken' # cachedToken /\ cachedToken' # Null) => ExchangeCompletes
       /\ (cachedToken # Null /\ cachedToken' = Null) =>
                ExchangeCompletes \/ RefreshTokenCalled \/ OnlyCredentialTouched
       /\ GetTokenCalled => cachedToken' = cachedToken
       /\ now' # now => cachedToken' = cachedToken]_vars

\* refreshToken() has removed a credential and its exchange is in flight.
C38_Witness ==
    /\ cachedToken = Null
    /\ op[1] = "refreshToken"
    /\ pc[1] = "initiator"
    /\ posts = 2
    /\ inflight = {2}
    /\ ticks > 0

\* C39: an HttpClient constructed with a maxRetries of 0 or more holds
\* exactly that number as its retry budget and never starts more than one
\* attempt beyond it, so that a configured 0 means a single attempt; one
\* constructed without maxRetries holds the default of 3.
C39_ConfiguredRetriesHonoured ==
    IF "maxRetries" \in DOMAIN httpConfig
    THEN /\ maxRetries = httpConfig.maxRetries
         /\ retryCount <= httpConfig.maxRetries
         /\ Len(answers) <= 1 + httpConfig.maxRetries
    ELSE maxRetries = DEFAULT_MAX_RETRIES

====
